---- MODULE Spec2Model ----
(***************************************************************************)
(* A model of the vite-angular template's build glue: the AngularBuilder   *)
(* wrapper with its read / post-transform plugin pipeline, the Vite and    *)
(* web-test-runner plugins that drive it, the Jasmine browser harness and  *)
(* the templateUrl rewriting plugin.                                       *)
(*                                                                         *)
(* Strings the code inspects (file ids, URLs) are sequences of characters, *)
(* so that endsWith / includes / replace / the regular expressions are     *)
(* computed and not assumed.  Source and output texts are sequences of     *)
(* tokens: a token stands for the piece of text a plugin or the compiler   *)
(* looks for or inserts.                                                   *)
(***************************************************************************)
EXTENDS Integers, Sequences, FiniteSets, TLC

VARIABLES
    env,                    \* AngularBuilder.env
    testEnv,                \* AngularBuilder.testEnv
    plugins,                \* the plugins argument of the constructor
    pluginMapping,          \* AngularBuilder.pluginMapping
    setupCalled,            \* names of the plugins whose setup(env) ran, in order
    currentAngularProgram,  \* AngularBuilder.currentAngularProgram
    builder,                \* AngularBuilder.builder: the program it was created from
    programCount,           \* how many programs createProgram has produced
    lastOp,                 \* what the last builder operation did (events, result)
    host,                   \* which bundler plugin drives the builder, "" for a direct caller
    isDev,                  \* the plugin's isDev
    phase,                  \* how far the bundler is: created, configured, starting, started
    exited,                 \* process.exit(1) has been called
    inflight,               \* the transform calls suspended in await validateFiles()
    lastHook,               \* what the last completed hook call did
    hpc,                    \* where the harness' bootstrap function is
    jasmineState,           \* idle, running (env.execute() was called) or done
    sessionCalls,           \* the calls made to the test-runner session, in order
    allSpecs,               \* tests.html allSpecs
    failedSpecs,            \* tests.html failedSpecs
    failedImports,          \* tests.html failedImports
    reported,               \* what Jasmine has handed to the reporter so far
    config,                 \* the config ReplaceTemplateUrlPlugin was created with
    lastTransform,          \* what its last transform call did
    mode,                   \* the mode Vite hands to defineConfig
    tsConfig,               \* what reading ./tsconfig.json gives
    lastTranspile,          \* what TranspileDecoratorsVite's last transform call did
    coverageConfig,         \* the files instrumentFilesPlugin's filter accepts
    coverageMapping,        \* instrumentFilesPlugin's coverageMapping
    programFiles,           \* per file: what the host read, instrumented and handed to the program
    readCount,              \* how many files the host has read through the read hook
    lastCoverage,           \* what the last compilation since the last read did
    linked,                 \* per module id: what AngularLinkerPlugin's transform did with it
    server,                 \* the plugin whose middleware the dev server uses, with its settings
    exchanges               \* the requests the middleware was called for, with their responses

builderVars == <<env, testEnv, plugins, pluginMapping, setupCalled,
                 currentAngularProgram, builder, programCount, lastOp>>
hookVars == <<host, isDev, phase, exited, inflight, lastHook>>
harnessVars == <<hpc, jasmineState, sessionCalls, allSpecs, failedSpecs, failedImports,
                 reported>>
templateVars == <<config, lastTransform>>
transpileVars == <<mode, tsConfig, lastTranspile>>
coverageVars == <<coverageConfig, coverageMapping, programFiles, readCount, lastCoverage>>
linkerVars == <<linked>>
serverVars == <<server, exchanges>>
standaloneVars == <<transpileVars, coverageVars, linkerVars, serverVars>>
vars == <<builderVars, hookVars, harnessVars, templateVars, standaloneVars>>

-----------------------------------------------------------------------------
(* Bounds *)

\* longest plugin list handed to the AngularBuilder constructor
MaxPlugins == 2
\* how many times a direct caller runs setupAngularProgram in one behaviour
MaxSetups == 1
\* how many file changes the dev server reports in one behaviour
MaxHotUpdates == 1
\* how many transform calls may be suspended at once
MaxCalls == 2
\* how many expectations Jasmine reports in one session
MaxExpectations == 3

\* specs Jasmine completes in one run
MaxSpecs == 2

-----------------------------------------------------------------------------
(* Character strings *)

S_main_ts == <<"m","a","i","n",".","t","s">>
S_component_ts == <<"c","o","m","p","o","n","e","n","t",".","t","s">>
S_ts == <<".","t","s">>
S_html == <<".","h","t","m","l">>
S_less == <<".","l","e","s","s">>
S_d_ts == <<".","d",".","t","s">>
S_spec_ts == <<".","s","p","e","c",".","t","s">>
S_src == <<"s","r","c","/">>
S_node_modules == <<"n","o","d","e","_","m","o","d","u","l","e","s","/">>
S_wtr == <<"@","w","e","b","/","t","e","s","t","-","r","u","n","n","e","r">>
S_wds == <<"w","e","b","-","d","e","v","-","s","e","r","v","e","r">>
S_slash == <<"/">>

\* process.cwd(), with its trailing separator
Cwd == <<"/","p","/">>

F_main == <<"/","p","/","s","r","c","/","m","a","i","n",".","t","s">>
F_comp == <<"/","p","/","s","r","c","/","a",".","c","o","m","p","o","n","e","n","t",".","t","s">>
F_nosel == <<"/","p","/","l","i","b","/","b",".","c","o","m","p","o","n","e","n","t",".","t","s">>
F_dts == <<"/","p","/","l","i","b","/","t",".","d",".","t","s">>
F_tmpl == <<"/","p","/","s","r","c","/","a",".","c","o","m","p","o","n","e","n","t",".","h","t","m","l">>
F_style == <<"/","p","/","s","r","c","/","a",".","c","o","m","p","o","n","e","n","t",".","l","e","s","s">>
F_other == <<"/","p","/","s","r","c","/","x",".","t","s">>
F_wtr == <<"/","p","/","@","w","e","b","/","t","e","s","t","-","r","u","n","n","e","r","/","r",".","t","s">>

\* the files the tsconfig names (readConfiguration's rootNames), in order
RootFiles == <<F_main, F_comp, F_nosel, F_dts>>
\* the file ids a hook or a caller may pass
FileIds == {F_main, F_comp, F_nosel, F_dts, F_tmpl, F_style, F_other, F_wtr}

Range(seq) == {seq[i] : i \in 1..Len(seq)}

\* String.prototype.startsWith at position i (1-based)
MatchAt(s, pat, i) ==
    /\ i >= 1
    /\ i + Len(pat) - 1 <= Len(s)
    /\ \A k \in 1..Len(pat) : s[i + k - 1] = pat[k]

\* String.prototype.endsWith
EndsWith(s, suf) == Len(suf) <= Len(s) /\ MatchAt(s, suf, Len(s) - Len(suf) + 1)

\* String.prototype.includes
Includes(s, pat) == \E i \in 1..(Len(s) + 1) : MatchAt(s, pat, i)

\* String.prototype.indexOf, 1-based; 0 when absent
IndexOf(s, pat) ==
    IF Includes(s, pat)
    THEN CHOOSE i \in 1..(Len(s) + 1) :
            MatchAt(s, pat, i) /\ \A j \in 1..(i - 1) : ~MatchAt(s, pat, j)
    ELSE 0

\* String.prototype.replace with a string pattern: the first occurrence only
Replace(s, pat, rep) ==
    LET i == IndexOf(s, pat)
    IN  IF i = 0 THEN s
        ELSE SubSeq(s, 1, i - 1) \o rep \o SubSeq(s, i + Len(pat), Len(s))

\* /\.[cm]?tsx?$/.test(fileId)
IsTypeScriptId(fileId) ==
    LET stem == IF EndsWith(fileId, <<"x">>)
                THEN SubSeq(fileId, 1, Len(fileId) - 1) ELSE fileId
    IN  \/ EndsWith(stem, <<".","t","s">>)
        \/ EndsWith(stem, <<".","c","t","s">>)
        \/ EndsWith(stem, <<".","m","t","s">>)

-----------------------------------------------------------------------------
(* Texts *)

\* JavaScript's undefined, where a text is expected
Undef == <<"<undefined>">>
\* a plugin's transform raised an exception
Throw == <<"<throw>">>
\* the empty string
Empty == <<>>

\* JavaScript truthiness of a string-or-undefined value
Truthy(t) == t # Undef /\ t # Empty

HasToken(text, tok) == \E i \in 1..Len(text) : text[i] = tok

\* what the original readFile of the TypeScript host returns for a file
DiskText(name) ==
    CASE name = F_main  -> <<"bootstrapApplication">>
      [] name = F_comp  -> <<"selector", "class">>
      [] name = F_nosel -> <<"class">>
      [] name = F_dts   -> <<"declaration">>
      [] name = F_tmpl  -> <<"template">>
      [] name = F_style -> <<"style">>
      [] OTHER          -> Undef

-----------------------------------------------------------------------------
(* Builder plugins *)

Envs == {"dev", "production", "test"}
Stages == {"read", "post-transform"}

hmrPostPlugin ==
    [name |-> "hmr-plugin", stage |-> "post-transform", apply |-> "dev", hasSetup |-> FALSE]
appBootstrapPlugin ==
    [name |-> "global-app-plugin", stage |-> "read", apply |-> "dev", hasSetup |-> FALSE]
instrumentFiles ==
    [name |-> "instrument-files", stage |-> "read", apply |-> "test", hasSetup |-> TRUE]
addCompiler ==
    [name |-> "add-compiler", stage |-> "post-transform", apply |-> "dev", hasSetup |-> FALSE]
addPolyfills ==
    [name |-> "add-polyfills", stage |-> "post-transform", apply |-> "production", hasSetup |-> FALSE]
\* A plugin written by a caller of the builder whose transform only inspects the
\* code and returns nothing: the case both plugin loops answer with
\* "returned no output and was ignored".
inspectOnlyPlugin ==
    [name |-> "inspect-only", stage |-> "post-transform", apply |-> "production", hasSetup |-> FALSE]

PluginPool == {hmrPostPlugin, appBootstrapPlugin, instrumentFiles, addCompiler,
               addPolyfills, inspectOnlyPlugin}

\* the filter instrumentFiles.setup creates from include ["src/**/*.ts"] and
\* exclude ["node_modules/**", "src/**/*.spec.ts"]; createFilter resolves the
\* patterns against the working directory
filter(fileId) ==
    /\ MatchAt(fileId, Cwd \o S_src, 1)
    /\ EndsWith(fileId, S_ts)
    /\ ~EndsWith(fileId, S_spec_ts)
    /\ ~MatchAt(fileId, Cwd \o S_node_modules, 1)

\* hmrPostPlugin.transform: a null match of either regular expression is indexed
\* with [0], which raises a TypeError
hmrPostPlugin_transform(fileId, code) ==
    IF ~Truthy(code) \/ ~EndsWith(fileId, S_component_ts) THEN code
    ELSE IF ~HasToken(code, "selector") \/ ~HasToken(code, "class") THEN Throw
    ELSE code \o <<"hmrFooter">>

\* code.replace(/bootstrapApplication\(...\)/, v => v + ".then(...)"): first match only
ReplaceBootstrap(code) ==
    IF ~HasToken(code, "bootstrapApplication") THEN code
    ELSE LET i == CHOOSE k \in 1..Len(code) :
                    /\ code[k] = "bootstrapApplication"
                    /\ \A j \in 1..(k - 1) : code[j] # "bootstrapApplication"
         IN  SubSeq(code, 1, i) \o <<"thenSetApp">> \o SubSeq(code, i + 1, Len(code))

appBootstrapPlugin_transform(fileId, code) ==
    IF ~Includes(fileId, S_main_ts) \/ ~Truthy(code) THEN code
    ELSE ReplaceBootstrap(code)

\* instrumentFiles.transform; babelCode tells whether transformSync produced code
instrumentFiles_transform(fileId, code, babelCode) ==
    IF ~filter(fileId) \/ ~Truthy(code) THEN code
    ELSE IF babelCode THEN <<"coverage">> \o code ELSE Undef

addCompiler_transform(fileId, code) ==
    IF ~Includes(fileId, S_main_ts) \/ ~Truthy(code) THEN code
    ELSE <<"importCompiler">> \o code

addPolyfills_transform(fileId, code) ==
    IF ~Includes(fileId, S_main_ts) \/ ~Truthy(code) THEN code
    ELSE <<"importPolyfills">> \o code

inspectOnlyPlugin_transform(fileId, code) == Undef

\* plugin.transform(fileId, code)
PluginTransform(plugin, fileId, code, babelCode) ==
    CASE plugin.name = "hmr-plugin"        -> hmrPostPlugin_transform(fileId, code)
      [] plugin.name = "global-app-plugin" -> appBootstrapPlugin_transform(fileId, code)
      [] plugin.name = "instrument-files"  -> instrumentFiles_transform(fileId, code, babelCode)
      [] plugin.name = "add-compiler"      -> addCompiler_transform(fileId, code)
      [] plugin.name = "add-polyfills"     -> addPolyfills_transform(fileId, code)
      [] OTHER                             -> inspectOnlyPlugin_transform(fileId, code)

-----------------------------------------------------------------------------
(* AngularBuilder *)

EmptyMapping == [e \in Envs |-> [s \in Stages |-> <<>>]]

Push(mapping, e, s, plugin) ==
    [mapping EXCEPT ![e][s] = Append(mapping[e][s], plugin)]

\* mutant: the guard forgets that testEnv only counts in a test build
PluginSelected_IgnoresEnvForTestEnv(plugin, e, te) ==
    plugin.apply = e \/ plugin.apply = te

\* the guard of the constructor's plugins.forEach
PluginSelected(plugin, e, te) ==
    plugin.apply = e \/ (e = "test" /\ plugin.apply = te)

\* the body of the constructor's plugins.forEach for one plugin
RegisterOne(reg, plugin, e, te) ==
    IF PluginSelected(plugin, e, te)
    THEN LET m1 == Push(reg.mapping, plugin.apply, plugin.stage, plugin)
             m2 == IF plugin.apply = te THEN Push(m1, "test", plugin.stage, plugin) ELSE m1
         IN  [mapping |-> m2,
              setup   |-> IF plugin.hasSetup THEN Append(reg.setup, plugin.name)
                          ELSE reg.setup]
    ELSE reg

RECURSIVE RegisterPlugins(_, _, _, _)
RegisterPlugins(reg, ps, e, te) ==
    IF ps = <<>> THEN reg
    ELSE RegisterPlugins(RegisterOne(reg, Head(ps), e, te), Tail(ps), e, te)

\* new AngularBuilder(env, testEnv, tsConfigPath, plugins)
Constructor(e, te, ps) ==
    RegisterPlugins([mapping |-> EmptyMapping, setup |-> <<>>], ps, e, te)

PluginEvent(plugin, fileId, input, output) ==
    [kind |-> "plugin", plugin |-> plugin.name, stage |-> plugin.stage,
     apply |-> plugin.apply, file |-> fileId, input |-> input, output |-> output]

HostEvent(kind, fileId, output) ==
    [kind |-> kind, plugin |-> "", stage |-> "", apply |-> "",
     file |-> fileId, input |-> Undef, output |-> output]

\* mutant: the loop assigns every output, also an empty one
RECURSIVE ApplyPlugins_KeepsEmptyOutput(_, _, _, _)
ApplyPlugins_KeepsEmptyOutput(list, fileId, res, babelCode) ==
    IF list = <<>> THEN [res |-> res, events |-> <<>>, threw |-> FALSE]
    ELSE LET plugin == Head(list)
             output == PluginTransform(plugin, fileId, res, babelCode)
             event  == PluginEvent(plugin, fileId, res, output)
         IN  IF output = Throw
             THEN [res |-> res, events |-> <<event>>, threw |-> TRUE]
             ELSE LET rest == ApplyPlugins_KeepsEmptyOutput(Tail(list), fileId, output,
                                                            babelCode)
                  IN  [res |-> rest.res, events |-> <<event>> \o rest.events,
                       threw |-> rest.threw]

\* list.forEach(plugin => { const output = plugin.transform(id, res);
\*                          if (output) res = output; else console.warn(...) })
RECURSIVE ApplyPlugins(_, _, _, _)
ApplyPlugins(list, fileId, res, babelCode) ==
    IF list = <<>> THEN [res |-> res, events |-> <<>>, threw |-> FALSE]
    ELSE LET plugin == Head(list)
             output == PluginTransform(plugin, fileId, res, babelCode)
             event  == PluginEvent(plugin, fileId, res, output)
         IN  IF output = Throw
             THEN [res |-> res, events |-> <<event>>, threw |-> TRUE]
             ELSE LET rest == ApplyPlugins(Tail(list), fileId,
                                           IF Truthy(output) THEN output ELSE res,
                                           babelCode)
                  IN  [res |-> rest.res, events |-> <<event>> \o rest.events,
                       threw |-> rest.threw]

\* the tsHost.readFile override installed by setupCompilerHost
tsHostReadFile(mapping, e, name, babelCode) ==
    LET res == DiskText(name)
        run == ApplyPlugins(mapping[e]["read"], name, res, babelCode)
    IN  [res |-> run.res,
         events |-> <<HostEvent("originalReadFile", name, res)>> \o run.events,
         threw |-> run.threw]

NoProgram ==
    [id |-> 0, text |-> [f \in {} |-> Undef], diagnostics |-> FALSE, analysed |-> FALSE]

\* createProgram reads every root file through the host
RECURSIVE ReadRootFiles(_, _, _, _)
ReadRootFiles(files, mapping, e, babel) ==
    IF files = <<>> THEN [text |-> [f \in {} |-> Undef], events |-> <<>>, threw |-> FALSE]
    ELSE LET one == tsHostReadFile(mapping, e, Head(files), babel[Head(files)])
         IN  IF one.threw
             THEN [text |-> [f \in {} |-> Undef], events |-> one.events, threw |-> TRUE]
             ELSE LET rest == ReadRootFiles(Tail(files), mapping, e, babel)
                  IN  [text |-> (Head(files) :> one.res) @@ rest.text,
                       events |-> one.events \o rest.events,
                       threw |-> rest.threw]

\* builder.getSourceFile(fileId) is defined
HasSourceFile(bld, fileId) ==
    fileId \in DOMAIN bld.text /\ bld.text[fileId] # Undef

\* builder.emit(sourceFile, (_filename, data) => ...): a declaration file writes nothing
Emit(fileId, text) ==
    IF EndsWith(fileId, S_d_ts) THEN Empty ELSE <<"js">> \o text

NoResult(fileId, threw) ==
    [op |-> "buildFile", file |-> fileId, events |-> <<>>,
     returned |-> FALSE, text |-> Undef, threw |-> threw]

\* mutant: the MagicString is overwritten with the emitted data, not with what the
\* post-transform plugins made of it
buildFile_ReturnsEmittedData(mapping, e, cap, bld, fileId) ==
    IF cap.id = 0 THEN NoResult(fileId, TRUE)
    ELSE IF ~IsTypeScriptId(fileId) THEN NoResult(fileId, FALSE)
    ELSE IF ~HasSourceFile(bld, fileId) THEN NoResult(fileId, FALSE)
    ELSE LET data   == Emit(fileId, bld.text[fileId])
             output == IF Truthy(data) THEN data ELSE Empty
             run    == ApplyPlugins(mapping[e]["post-transform"], fileId, output, TRUE)
             events == <<HostEvent("emit", fileId, output)>> \o run.events
         IN  [op |-> "buildFile", file |-> fileId, events |-> events,
              returned |-> ~run.threw, text |-> IF run.threw THEN Undef ELSE output,
              threw |-> run.threw]

\* mutant: the check for a missing source file is gone, so reading its text raises
buildFile_NoSourceFileGuard(mapping, e, cap, bld, fileId) ==
    IF cap.id = 0 THEN NoResult(fileId, TRUE)
    ELSE IF ~IsTypeScriptId(fileId) THEN NoResult(fileId, FALSE)
    ELSE IF ~HasSourceFile(bld, fileId) THEN NoResult(fileId, TRUE)
    ELSE LET data   == Emit(fileId, bld.text[fileId])
             output == IF Truthy(data) THEN data ELSE Empty
             run    == ApplyPlugins(mapping[e]["post-transform"], fileId, output, TRUE)
             events == <<HostEvent("emit", fileId, output)>> \o run.events
         IN  IF run.threw
             THEN [op |-> "buildFile", file |-> fileId, events |-> events,
                   returned |-> FALSE, text |-> Undef, threw |-> TRUE]
             ELSE [op |-> "buildFile", file |-> fileId, events |-> events,
                   returned |-> TRUE, text |-> run.res, threw |-> FALSE]

\* AngularBuilder.buildFile(fileId)
buildFile(mapping, e, cap, bld, fileId) ==
    IF cap.id = 0 THEN NoResult(fileId, TRUE)
    ELSE IF ~IsTypeScriptId(fileId) THEN NoResult(fileId, FALSE)
    ELSE IF ~HasSourceFile(bld, fileId) THEN NoResult(fileId, FALSE)
    ELSE LET data   == Emit(fileId, bld.text[fileId])
             output == IF Truthy(data) THEN data ELSE Empty
             run    == ApplyPlugins(mapping[e]["post-transform"], fileId, output, TRUE)
             events == <<HostEvent("emit", fileId, output)>> \o run.events
         IN  IF run.threw
             THEN [op |-> "buildFile", file |-> fileId, events |-> events,
                   returned |-> FALSE, text |-> Undef, threw |-> TRUE]
             ELSE [op |-> "buildFile", file |-> fileId, events |-> events,
                   returned |-> TRUE, text |-> run.res, threw |-> FALSE]

-----------------------------------------------------------------------------
(* The builder driven directly by a caller *)

\* the plugin lists a caller may pass: no plugin twice, at most MaxPlugins
PluginLists ==
    {ps \in UNION {[1..n -> PluginPool] : n \in 0..MaxPlugins} :
        \A i, j \in 1..Len(ps) : i # j => ps[i] # ps[j]}

NoOp == [op |-> "none", file |-> Empty, events |-> <<>>,
         returned |-> FALSE, text |-> Undef, threw |-> FALSE]

\* no hook has completed yet
NoHook == [hook |-> "none", file |-> Empty, input |-> Undef,
           outcome |-> "none", text |-> Undef,
           diagnostics |-> FALSE, built |-> FALSE, analysed |-> 0, emitted |-> 0,
           affected |-> <<>>, graph |-> {}]

\* the builder is used without a bundler plugin around it
NoHost ==
    /\ host = ""
    /\ isDev = FALSE
    /\ phase = "none"
    /\ exited = FALSE
    /\ inflight = {}
    /\ lastHook = NoHook

\* Jasmine has reported no spec and not the end of the run
NoReports == [specs |-> <<>>, overallStatus |-> ""]

\* the harness page is not loaded
NoHarness ==
    /\ hpc = "none"
    /\ jasmineState = "idle"
    /\ sessionCalls = <<>>
    /\ allSpecs = <<>>
    /\ failedSpecs = <<>>
    /\ failedImports = <<>>
    /\ reported = NoReports

\* no ReplaceTemplateUrlPlugin was created
NoTransform == [called |-> FALSE,
                input |-> [has |-> FALSE, quote |-> "\"", url |-> <<>>],
                matched |-> FALSE, code |-> <<>>, read |-> <<>>, threw |-> FALSE]
NoTemplatePlugin ==
    /\ config = [inlineTemplates |-> TRUE, newParentFolder |-> Empty,
                 keepFolderStructure |-> FALSE]
    /\ lastTransform = NoTransform

\* TranspileDecoratorsVite has not been called
NoTranspile == [called |-> FALSE, id |-> <<>>, code |-> <<>>, result |-> <<"<undefined>">>]
NoTranspilePlugin ==
    /\ mode = "development"
    /\ tsConfig = "ok"
    /\ lastTranspile = NoTranspile

\* instrumentFilesPlugin (builderPlugins.ts) was not created
NoCoverage == [called |-> FALSE, file |-> <<>>, source |-> <<>>, babel |-> "ok",
               instrumented |-> <<>>, text |-> <<>>, code |-> <<>>]
NoCoveragePlugin ==
    /\ coverageConfig = {}
    /\ coverageMapping = <<>>
    /\ programFiles = <<>>
    /\ readCount = 0
    /\ lastCoverage = NoCoverage

\* AngularLinkerPlugin was not created
NoLinkerPlugin == linked = <<>>

\* no dev server is running
NoServer ==
    /\ server = [plugin |-> "", globalStyleSheets |-> <<>>, entryCSSFile |-> <<>>]
    /\ exchanges = <<>>

\* none of the stand-alone plugins is in use
NoStandalone ==
    /\ NoTranspilePlugin
    /\ NoCoveragePlugin
    /\ NoLinkerPlugin
    /\ NoServer

\* no AngularBuilder was constructed
NoBuilder ==
    /\ env = "dev"
    /\ testEnv = "dev"
    /\ plugins = <<>>
    /\ pluginMapping = EmptyMapping
    /\ setupCalled = <<>>
    /\ currentAngularProgram = NoProgram
    /\ builder = NoProgram
    /\ programCount = 0
    /\ lastOp = NoOp

InitBuilder ==
    /\ env \in Envs
    /\ testEnv \in {"dev", "production"}
    /\ plugins \in PluginLists
    /\ pluginMapping = Constructor(env, testEnv, plugins).mapping
    /\ setupCalled = Constructor(env, testEnv, plugins).setup
    /\ currentAngularProgram = NoProgram
    /\ builder = NoProgram
    /\ programCount = 0
    /\ lastOp = NoOp
    /\ NoHost
    /\ NoHarness
    /\ NoTemplatePlugin
    /\ NoStandalone

\* AngularBuilder.setupAngularProgram: createProgram, then createAbstractBuilder.
\* babel: per file, whether transformSync produces code; diagnostics: whether the
\* compiler will have something to report about the new program.
setupAngularProgram(mapping, e, babel, diagnostics) ==
    LET read == ReadRootFiles(RootFiles, mapping, e, babel)
        prog == [id |-> programCount + 1, text |-> read.text,
                 diagnostics |-> diagnostics, analysed |-> FALSE]
    IN  /\ programCount' = programCount + 1
        /\ lastOp' = [op |-> "setupAngularProgram", file |-> Empty, events |-> read.events,
                      returned |-> ~read.threw, text |-> Undef, threw |-> read.threw]
        /\ IF read.threw
           THEN UNCHANGED <<currentAngularProgram, builder>>
           ELSE /\ currentAngularProgram' = prog
                /\ builder' = prog

\* transformSync is reached for a file only by a registered instrumentFiles whose
\* filter accepts it; elsewhere its outcome is immaterial and fixed
BabelOutcomes(mapping, e) ==
    {babel \in [Range(RootFiles) -> BOOLEAN] :
        \A f \in Range(RootFiles) :
            ~(filter(f) /\ instrumentFiles \in Range(mapping[e]["read"])) => babel[f]}

SetupAngularProgram ==
    /\ programCount < MaxSetups
    /\ \E babel \in BabelOutcomes(pluginMapping, env), diagnostics \in BOOLEAN :
          setupAngularProgram(pluginMapping, env, babel, diagnostics)
    /\ UNCHANGED <<env, testEnv, plugins, pluginMapping, setupCalled>>
    /\ UNCHANGED hookVars
    /\ UNCHANGED <<harnessVars, templateVars, standaloneVars>>

\* the text validateFiles returns for a program
FormatDiagnostics(prog) == IF prog.diagnostics THEN <<"diagnostics">> ELSE Empty

\* what validateFiles resolves to when it reads the diagnostics of program cap
validateFiles(cap) ==
    [op |-> "validateFiles", file |-> Empty, events |-> <<>>, returned |-> TRUE,
     text |-> IF cap.id = 0 THEN Undef ELSE FormatDiagnostics(cap),
     threw |-> FALSE]

\* AngularBuilder.validateFiles, run to completion
ValidateFiles ==
    /\ lastOp' = validateFiles(currentAngularProgram)
    /\ currentAngularProgram' =
          IF currentAngularProgram.id = 0 THEN currentAngularProgram
          ELSE [currentAngularProgram EXCEPT !.analysed = TRUE]
    /\ UNCHANGED <<env, testEnv, plugins, pluginMapping, setupCalled, builder, programCount>>
    /\ UNCHANGED hookVars
    /\ UNCHANGED <<harnessVars, templateVars, standaloneVars>>

BuildFile ==
    /\ \E fileId \in FileIds :
          lastOp' = buildFile(pluginMapping, env, currentAngularProgram, builder, fileId)
    /\ UNCHANGED <<env, testEnv, plugins, pluginMapping, setupCalled,
                   currentAngularProgram, builder, programCount>>
    /\ UNCHANGED hookVars
    /\ UNCHANGED <<harnessVars, templateVars, standaloneVars>>

NextBuilder ==
    \/ SetupAngularProgram
    \/ ValidateFiles
    \/ BuildFile

SpecBuilder == InitBuilder /\ [][NextBuilder]_vars

-----------------------------------------------------------------------------
(* The bundler plugins built on the builder: BuildAngularPlugin (plugins.ts),  *)
(* the earlier BuildAngularPlugin that holds the compiler itself, and the      *)
(* web-test-runner's AngularTestsPlugin.  The bundler awaits buildStart before *)
(* it asks for transforms; a transform is suspended at await validateFiles()   *)
(* and resumed later, and handleHotUpdate runs to completion whenever the dev  *)
(* server's watcher reports a change, also between the two.                    *)

Hosts == {"BuildAngularPlugin", "BuildAngularPluginInline", "AngularTestsPlugin"}

\* [hmrPlugin(), addCompilerPlugin(), addPolyfillsPlugin()]: hmrPlugin's read
\* hook is appBootstrapPlugin and its transform hook is hmrPostPlugin
VitePlugins == <<appBootstrapPlugin, hmrPostPlugin, addCompiler, addPolyfills>>

\* [instrumentFiles({...}), addCompiler()]
WtrPlugins == <<instrumentFiles, addCompiler>>

\* a path as the test runner's dev server names it: relative to the working directory
Rel(fileId) == SubSeq(fileId, Len(Cwd) + 1, Len(fileId))

\* path.resolve(id)
Resolve(id) == IF MatchAt(id, S_slash, 1) THEN id ELSE Cwd \o id

\* the module ids Vite asks BuildAngularPlugin.transform about
TransformIds == {F_main, F_comp, F_nosel, F_tmpl, F_other}
\* the ids the test runner asks AngularTestsPlugin.transform about
WtrIds == {Rel(F_main), Rel(F_comp), Rel(F_tmpl), Rel(F_other), F_dts, F_wtr}
\* the files the watcher reports
HotFiles == {F_comp, F_tmpl, F_style}
\* the modules of the component a.component that the module graph may hold
ComponentModules == {F_comp, F_tmpl, F_style}

InitHooks ==
    /\ host \in Hosts
    /\ isDev = FALSE
    /\ phase = IF host = "AngularTestsPlugin" THEN "configured" ELSE "created"
    /\ exited = FALSE
    /\ inflight = {}
    /\ lastHook = NoHook
    /\ NoBuilder
    /\ NoHarness
    /\ NoTemplatePlugin
    /\ NoStandalone

\* the config hook of both BuildAngularPlugin variants
Config ==
    /\ phase = "created"
    /\ \E command \in {"serve", "build"} :
          /\ isDev' = (command = "serve")
          /\ IF host = "BuildAngularPlugin"
             THEN LET e   == IF command = "serve" THEN "dev" ELSE "production"
                      reg == Constructor(e, "dev", VitePlugins)
                  IN  /\ env' = e
                      /\ testEnv' = "dev"
                      /\ plugins' = VitePlugins
                      /\ pluginMapping' = reg.mapping
                      /\ setupCalled' = reg.setup
             ELSE UNCHANGED <<env, testEnv, plugins, pluginMapping, setupCalled>>
    /\ phase' = "configured"
    /\ UNCHANGED <<currentAngularProgram, builder, programCount, lastOp>>
    /\ UNCHANGED <<host, exited, inflight, lastHook>>
    /\ UNCHANGED <<harnessVars, templateVars, standaloneVars>>

\* buildStart up to its await: AngularTestsPlugin constructs its builder here, all
\* three create the program and the builder, then validateFiles starts analyzeAsync
BuildStartCall ==
    /\ phase = "configured"
    /\ ~exited
    /\ LET reg == IF host = "AngularTestsPlugin"
                  THEN Constructor("test", "dev", WtrPlugins)
                  ELSE [mapping |-> pluginMapping, setup |-> setupCalled]
           e   == IF host = "AngularTestsPlugin" THEN "test" ELSE env
       IN  /\ env' = e
           /\ testEnv' = "dev"
           /\ plugins' = IF host = "AngularTestsPlugin" THEN WtrPlugins ELSE plugins
           /\ pluginMapping' = reg.mapping
           /\ setupCalled' = reg.setup
           /\ \E babel \in BabelOutcomes(reg.mapping, e), diagnostics \in BOOLEAN :
                 setupAngularProgram(reg.mapping, e, babel, diagnostics)
    /\ phase' = "starting"
    /\ UNCHANGED <<host, isDev, exited, inflight, lastHook>>
    /\ UNCHANGED <<harnessVars, templateVars, standaloneVars>>

\* whether buildStart calls process.exit(1) on the validation result
ExitsAtBuildStart(h, dev, res) ==
    CASE h = "BuildAngularPlugin"       -> Truthy(res) /\ ~dev
      [] h = "BuildAngularPluginInline" -> Truthy(res)
      [] OTHER                          -> FALSE

\* buildStart after its await
BuildStartResume ==
    /\ phase = "starting"
    /\ ~exited
    /\ LET op   == validateFiles(currentAngularProgram)
           exit == ExitsAtBuildStart(host, isDev, op.text)
       IN  /\ lastOp' = op
           /\ exited' = exit
           /\ lastHook' = [NoHook EXCEPT !.hook = "buildStart",
                                         !.outcome = IF exit THEN "exit" ELSE "none",
                                         !.diagnostics = Truthy(op.text),
                                         !.analysed = currentAngularProgram.id]
    /\ currentAngularProgram' = [currentAngularProgram EXCEPT !.analysed = TRUE]
    /\ phase' = "started"
    /\ UNCHANGED <<env, testEnv, plugins, pluginMapping, setupCalled, builder, programCount>>
    /\ UNCHANGED <<host, isDev, inflight>>
    /\ UNCHANGED <<harnessVars, templateVars, standaloneVars>>

\* transform up to its await: validateFiles starts analyzeAsync on the program
\* that is current now
TransformCall ==
    /\ host \in {"BuildAngularPlugin", "BuildAngularPluginInline"}
    /\ phase = "started"
    /\ ~exited
    /\ Cardinality(inflight) < MaxCalls
    /\ \E id \in TransformIds :
          inflight' = inflight \cup {[file |-> id, awaited |-> currentAngularProgram.id]}
    /\ UNCHANGED builderVars
    /\ UNCHANGED <<host, isDev, phase, exited, lastHook>>
    /\ UNCHANGED <<harnessVars, templateVars, standaloneVars>>

\* the body of the earlier BuildAngularPlugin's transform after the validation
transformInline(cap, bld, fileId, dev) ==
    IF ~IsTypeScriptId(fileId) THEN NoResult(fileId, FALSE)
    ELSE IF ~HasSourceFile(bld, fileId) THEN NoResult(fileId, FALSE)
    ELSE LET data   == Emit(fileId, bld.text[fileId])
             output == IF Truthy(data) THEN data ELSE Empty
             intro  == IF Includes(fileId, S_main_ts) /\ dev
                       THEN <<"importCompiler">> ELSE Empty
         IN  [op |-> "buildFile", file |-> fileId,
              events |-> <<HostEvent("emit", fileId, output)>>,
              returned |-> TRUE, text |-> intro \o output, threw |-> FALSE]

\* what a transform hook answers after its build step
HookOutcome(op) ==
    IF op.threw THEN "error" ELSE IF op.returned THEN "code" ELSE "none"

\* transform after its await: the diagnostics are read from the program that is
\* current now, and the file is emitted from the builder that is current now
TransformResume ==
    /\ phase = "started"
    /\ ~exited
    /\ \E call \in inflight :
          LET validation == validateFiles(currentAngularProgram)
              exit  == Truthy(validation.text) /\ ~isDev
              build == IF host = "BuildAngularPlugin"
                       THEN buildFile(pluginMapping, env, currentAngularProgram, builder,
                                      call.file)
                       ELSE transformInline(currentAngularProgram, builder, call.file, isDev)
          IN  /\ inflight' = inflight \ {call}
              /\ exited' = exit
              /\ lastOp' = IF exit THEN validation ELSE build
              /\ lastHook' =
                    IF exit
                    THEN [NoHook EXCEPT !.hook = "transform", !.file = call.file,
                                        !.outcome = "exit", !.diagnostics = TRUE,
                                        !.analysed = call.awaited]
                    ELSE [NoHook EXCEPT !.hook = "transform", !.file = call.file,
                                        !.outcome = HookOutcome(build),
                                        !.text = build.text,
                                        !.diagnostics = Truthy(validation.text),
                                        !.built = TRUE,
                                        !.analysed = call.awaited,
                                        !.emitted = builder.id]
    /\ currentAngularProgram' = [currentAngularProgram EXCEPT !.analysed = TRUE]
    /\ UNCHANGED <<env, testEnv, plugins, pluginMapping, setupCalled, builder, programCount>>
    /\ UNCHANGED <<host, isDev, phase>>
    /\ UNCHANGED <<harnessVars, templateVars, standaloneVars>>

\* the modules handleHotUpdate returns; graph is what getModuleById can find
handleHotUpdate(file, graph) ==
    LET moduleTsFile   == Replace(Replace(file, S_html, S_ts), S_less, S_ts)
        module         == IF moduleTsFile \in graph THEN <<moduleTsFile>> ELSE <<>>
        templateId     == Replace(moduleTsFile, S_ts, S_html)
        styleId        == Replace(file, S_ts, S_less)
        moduleTemplate == IF templateId \in graph THEN <<templateId>> ELSE <<>>
        moduleStyle    == IF styleId \in graph THEN <<styleId>> ELSE <<>>
    IN  IF EndsWith(file, S_html) \/ EndsWith(file, S_less)
        THEN module \o moduleTemplate \o moduleStyle
        ELSE module

\* BuildAngularPlugin.handleHotUpdate: a new program and builder, then the
\* affected modules.  Only the dev server calls it.
HandleHotUpdate ==
    /\ host = "BuildAngularPlugin"
    /\ isDev
    /\ phase = "started"
    /\ ~exited
    /\ programCount < 1 + MaxHotUpdates
    /\ \E babel \in BabelOutcomes(pluginMapping, env), diagnostics \in BOOLEAN :
          setupAngularProgram(pluginMapping, env, babel, diagnostics)
    /\ \E file \in HotFiles, graph \in SUBSET ComponentModules :
          lastHook' = [NoHook EXCEPT !.hook = "handleHotUpdate", !.file = file,
                                        !.outcome = "modules",
                                        !.affected = handleHotUpdate(file, graph),
                                        !.graph = graph]
    /\ UNCHANGED <<env, testEnv, plugins, pluginMapping, setupCalled>>
    /\ UNCHANGED <<host, isDev, phase, exited, inflight>>
    /\ UNCHANGED <<harnessVars, templateVars, standaloneVars>>

\* AngularTestsPlugin.transform, which does not await
WtrTransform ==
    /\ host = "AngularTestsPlugin"
    /\ phase = "started"
    /\ \E id \in WtrIds :
          IF ~Includes(id, S_wtr) /\ ~Includes(id, S_wds)
          THEN LET build == buildFile(pluginMapping, env, currentAngularProgram, builder,
                                      Resolve(id))
                   intro == IF Includes(id, S_src) THEN <<"importMetaEnv">> ELSE Empty
               IN  /\ lastOp' = build
                   /\ lastHook' = [NoHook EXCEPT !.hook = "transform", !.file = id,
                                                 !.outcome = HookOutcome(build),
                                                 !.text = IF build.returned
                                                          THEN intro \o build.text
                                                          ELSE Undef,
                                                 !.built = TRUE,
                                                 !.analysed = currentAngularProgram.id,
                                                 !.emitted = builder.id]
          ELSE /\ lastOp' = lastOp
               /\ lastHook' = [NoHook EXCEPT !.hook = "transform", !.file = id]
    /\ UNCHANGED <<env, testEnv, plugins, pluginMapping, setupCalled,
                   currentAngularProgram, builder, programCount>>
    /\ UNCHANGED <<host, isDev, phase, exited, inflight>>
    /\ UNCHANGED <<harnessVars, templateVars, standaloneVars>>

\* the index.html texts Vite may hand over: with a <head> tag and without one
IndexHtmls == {<<"<html>", "<head>", "</head>", "<body>">>, <<"<html>", "<body>">>}

\* String.prototype.replace on a text of tokens: the first occurrence only
ReplaceFirst(text, tok, rep) ==
    IF ~HasToken(text, tok) THEN text
    ELSE LET i == CHOOSE k \in 1..Len(text) :
                    text[k] = tok /\ \A j \in 1..(k - 1) : text[j] # tok
         IN  SubSeq(text, 1, i - 1) \o rep \o SubSeq(text, i + 1, Len(text))

\* mutant: the script tag is inserted whatever isDev is
transformIndexHtml_WhateverIsDev(dev, html) ==
    ReplaceFirst(html, "<head>", <<"<head>", "polyfillsScript">>)

\* BuildAngularPlugin.transformIndexHtml
transformIndexHtml(dev, html) ==
    IF dev THEN ReplaceFirst(html, "<head>", <<"<head>", "polyfillsScript">>) ELSE html

TransformIndexHtml ==
    /\ host = "BuildAngularPlugin"
    /\ phase = "started"
    /\ ~exited
    /\ \E html \in IndexHtmls :
          lastHook' = [NoHook EXCEPT !.hook = "transformIndexHtml", !.input = html,
                                     !.outcome = "code",
                                     !.text = transformIndexHtml(isDev, html)]
    /\ UNCHANGED builderVars
    /\ UNCHANGED <<host, isDev, phase, exited, inflight>>
    /\ UNCHANGED <<harnessVars, templateVars, standaloneVars>>

NextHooks ==
    \/ Config
    \/ BuildStartCall
    \/ BuildStartResume
    \/ TransformCall
    \/ TransformResume
    \/ HandleHotUpdate
    \/ WtrTransform
    \/ TransformIndexHtml

SpecHooks == InitHooks /\ [][NextHooks]_vars

-----------------------------------------------------------------------------
(* The Jasmine harness page, tests.html: a bootstrap function that awaits its  *)
(* way to env.execute(), and the reporter Jasmine calls while it runs.         *)

SessionCall(call, from, passed, errors, tests) ==
    [call |-> call, from |-> from, passed |-> passed, errors |-> errors, tests |-> tests]

\* the results Jasmine may hand to specDone
SpecResults ==
    [status : {"passed", "failed", "incomplete"},
     fullName : {"s1", "s2"},
     passedExpectations : {<<>>, <<"p">>},
     failedExpectations : {<<>>, <<"f">>}]

\* one entry of failedSpecs per failed expectation
FailedEntries(result) ==
    [i \in 1..Len(result.failedExpectations) |->
        [message |-> result.fullName, name |-> result.failedExpectations[i]]]

\* one entry of allSpecs per expectation
SpecEntries(expectations, passed) ==
    [i \in 1..Len(expectations) |-> [name |-> expectations[i], passed |-> passed]]

\* mutant: the reporter also ends the session whenever a spec is done
specDone_FinishesTheSession(result, all, failed, calls) ==
    [allSpecs     |-> all \o SpecEntries(result.passedExpectations, TRUE)
                          \o SpecEntries(result.failedExpectations, FALSE),
     failedSpecs  |-> failed \o FailedEntries(result),
     sessionCalls |-> Append(calls, SessionCall("sessionFinished", "specDone",
                                                FALSE, <<>>, <<>>))]

\* reporter.specDone: result.status !== "passed" || result.status !== "incomplete"
\* holds for every status
specDone(result, all, failed, calls) ==
    [allSpecs     |-> all \o SpecEntries(result.passedExpectations, TRUE)
                          \o SpecEntries(result.failedExpectations, FALSE),
     failedSpecs  |-> IF result.status # "passed" \/ result.status # "incomplete"
                      THEN failed \o FailedEntries(result)
                      ELSE failed,
     sessionCalls |-> calls]

\* mutant: the failed imports are left out of the errors
jasmineDone_WithoutFailedImports(overallStatus, all, failed, imports, calls) ==
    Append(calls, SessionCall("sessionFinished", "jasmineDone",
                              overallStatus = "passed", failed, all))

\* reporter.jasmineDone
jasmineDone(overallStatus, all, failed, imports, calls) ==
    Append(calls, SessionCall("sessionFinished", "jasmineDone",
                              overallStatus = "passed", failed \o imports, all))

InitHarness ==
    /\ hpc = "importSetup"
    /\ jasmineState = "idle"
    /\ sessionCalls = <<>>
    /\ allSpecs = <<>>
    /\ failedSpecs = <<>>
    /\ failedImports = <<>>
    /\ reported = NoReports
    /\ NoBuilder
    /\ NoHost
    /\ NoTemplatePlugin
    /\ NoStandalone

\* await import("./plugins/tests.ts"): a rejection ends the bootstrap function
ImportSetup ==
    /\ hpc = "importSetup"
    /\ \E ok \in BOOLEAN : hpc' = IF ok THEN "sessionStarted" ELSE "rejected"
    /\ UNCHANGED <<jasmineState, sessionCalls, allSpecs, failedSpecs, failedImports, reported>>
    /\ UNCHANGED <<builderVars, hookVars, templateVars, standaloneVars>>

\* await sessionStarted()
SessionStarted ==
    /\ hpc = "sessionStarted"
    /\ sessionCalls' = Append(sessionCalls,
                              SessionCall("sessionStarted", "bootstrap", FALSE, <<>>, <<>>))
    /\ hpc' = "getConfig"
    /\ UNCHANGED <<jasmineState, allSpecs, failedSpecs, failedImports, reported>>
    /\ UNCHANGED <<builderVars, hookVars, templateVars, standaloneVars>>

\* await getConfig(), then the Jasmine settings
GetConfig ==
    /\ hpc = "getConfig"
    /\ hpc' = "importTestFile"
    /\ UNCHANGED <<jasmineState, sessionCalls, allSpecs, failedSpecs, failedImports, reported>>
    /\ UNCHANGED <<builderVars, hookVars, templateVars, standaloneVars>>

\* await import(testFile).catch(error => failedImports.push(...))
ImportTestFile ==
    /\ hpc = "importTestFile"
    /\ \E ok \in BOOLEAN :
          failedImports' = IF ok THEN failedImports
                           ELSE Append(failedImports,
                                       [message |-> "import", name |-> "testFile"])
    /\ sessionCalls' = Append(sessionCalls,
                              SessionCall("importTestFile", "bootstrap", FALSE, <<>>, <<>>))
    /\ hpc' = "execute"
    /\ UNCHANGED <<jasmineState, allSpecs, failedSpecs, reported>>
    /\ UNCHANGED <<builderVars, hookVars, templateVars, standaloneVars>>

\* try { env.execute() } catch (error) { sessionFailed(error); return }
\* env.execute() is not awaited: it may throw, which the catch block handles, it
\* may start the run, or it may return a promise that rejects before the run
\* has started, which nothing handles
Execute ==
    /\ hpc = "execute"
    /\ \E outcome \in {"throws", "runs", "rejects"} :
          IF outcome = "throws"
          THEN /\ sessionCalls' =
                     sessionCalls
                     \o <<SessionCall("execute", "bootstrap", FALSE, <<>>, <<>>),
                          SessionCall("sessionFailed", "bootstrap", FALSE, <<>>, <<>>)>>
               /\ jasmineState' = jasmineState
          ELSE /\ sessionCalls' =
                     Append(sessionCalls,
                            SessionCall("execute", "bootstrap", FALSE, <<>>, <<>>))
               /\ jasmineState' = IF outcome = "runs" THEN "running" ELSE "rejected"
    /\ hpc' = "returned"
    /\ UNCHANGED <<allSpecs, failedSpecs, failedImports, reported>>
    /\ UNCHANGED <<builderVars, hookVars, templateVars, standaloneVars>>

\* Jasmine reports a finished spec
SpecDone ==
    /\ jasmineState = "running"
    /\ Len(allSpecs) < MaxExpectations
    /\ Len(reported.specs) < MaxSpecs
    /\ \E result \in SpecResults :
          LET after == specDone(result, allSpecs, failedSpecs, sessionCalls)
          IN  /\ Len(after.allSpecs) <= MaxExpectations
              /\ allSpecs' = after.allSpecs
              /\ failedSpecs' = after.failedSpecs
              /\ sessionCalls' = after.sessionCalls
              /\ reported' = [reported EXCEPT !.specs = Append(@, result)]
    /\ UNCHANGED <<hpc, jasmineState, failedImports>>
    /\ UNCHANGED <<builderVars, hookVars, templateVars, standaloneVars>>

\* Jasmine reports the end of the run, once
JasmineDone ==
    /\ jasmineState = "running"
    /\ \E overallStatus \in {"passed", "failed", "incomplete"} :
          /\ sessionCalls' = jasmineDone(overallStatus, allSpecs, failedSpecs,
                                         failedImports, sessionCalls)
          /\ reported' = [reported EXCEPT !.overallStatus = overallStatus]
    /\ jasmineState' = "done"
    /\ UNCHANGED <<hpc, allSpecs, failedSpecs, failedImports>>
    /\ UNCHANGED <<builderVars, hookVars, templateVars, standaloneVars>>

NextHarness ==
    \/ ImportSetup
    \/ SessionStarted
    \/ GetConfig
    \/ ImportTestFile
    \/ Execute
    \/ SpecDone
    \/ JasmineDone

SpecHarness == InitHarness /\ [][NextHarness]_vars

\* The browser runs every continuation of the bootstrap function that is ready,
\* and a Jasmine run that has started comes to its end (every spec has a
\* timeout).
FairHarness ==
    /\ WF_vars(ImportSetup)
    /\ WF_vars(SessionStarted)
    /\ WF_vars(GetConfig)
    /\ WF_vars(ImportTestFile)
    /\ WF_vars(Execute)
    /\ WF_vars(JasmineDone)

SpecHarnessFair == InitHarness /\ [][NextHarness]_vars /\ FairHarness

-----------------------------------------------------------------------------
(* ReplaceTemplateUrlPlugin.  The code of a component is the line that holds   *)
(* its templateUrl property, character by character; the content of a template *)
(* file is one element that names the file.                                    *)

S_templateUrlKey == <<"t","e","m","p","l","a","t","e","U","r","l",":">>
S_dot_slash == <<".","/">>
S_component == <<"c","o","m","p","o","n","e","n","t">>
S_html_quote == <<"h","t","m","l","\"">>
S_dot_component_html == <<".","c","o","m","p","o","n","e","n","t",".","h","t","m","l">>
S_my == <<"m","y">>
S_app == <<"a","p","p">>
S_src_app == <<".","/","s","r","c","/","a","p","p","/">>
S_src_app_components == <<".","/","s","r","c","/","a","p","p","/","c","o","m","p","o","n","e","n","t","s","/">>
S_components == <<"/","c","o","m","p","o","n","e","n","t","s","/">>
\* "template: " and the opening backquote of the template literal
S_template_open == <<"t","e","m","p","l","a","t","e",":"," ","backquote">>
S_backtick == <<"backquote">>

U_app == <<".","/","a","p","p",".","c","o","m","p","o","n","e","n","t",".","h","t","m","l">>
U_nav == <<".","/","n","a","v",".","c","o","m","p","o","n","e","n","t",".","h","t","m","l">>
U_my == <<".","/","m","y",".","c","o","m","p","o","n","e","n","t",".","h","t","m","l">>
U_bare == <<"n","a","v",".","c","o","m","p","o","n","e","n","t",".","h","t","m","l">>
U_sub == <<".","/","x","/","n","a","v",".","c","o","m","p","o","n","e","n","t",".","h","t","m","l">>

\* the component sources handed to transform: a templateUrl in double quotes, one
\* in single quotes, and a component with an inline template
TemplateInputs ==
    {[has |-> TRUE, quote |-> "\"", url |-> u] : u \in {U_app, U_nav, U_my, U_bare, U_sub}}
    \cup {[has |-> TRUE, quote |-> "'", url |-> U_nav],
          [has |-> FALSE, quote |-> "\"", url |-> Empty]}

\* the text of such a component source
CodeOf(input) ==
    IF input.has
    THEN <<"{">> \o S_templateUrlKey \o <<" ", input.quote>> \o input.url
               \o <<input.quote, "}">>
    ELSE <<"{", "}">>

\* the configurations the plugin may be created with; an absent option is falsy
TemplateConfigs ==
    [inlineTemplates : BOOLEAN,
     newParentFolder : {Empty, <<"/","t","/">>, <<"t","/">>},
     keepFolderStructure : BOOLEAN]

\* /.component.html"/ at position i: an unescaped dot stands for any character
WildAt(s, i) ==
    /\ i >= 1
    /\ i + 15 <= Len(s)
    /\ MatchAt(s, S_component, i + 1)
    /\ MatchAt(s, S_html_quote, i + 11)

\* /(templateUrl:)(.*)(.component.html")/ on the code: the first match, its
\* middle group as long as it can be; <<>> when there is none
TemplateUrlMatch(code) ==
    LET Ends(i) == {e \in (i + Len(S_templateUrlKey))..Len(code) : WildAt(code, e)}
        starts  == {i \in 1..Len(code) : MatchAt(code, S_templateUrlKey, i) /\ Ends(i) # {}}
    IN  IF starts = {} THEN <<>>
        ELSE LET i == CHOOSE x \in starts : \A y \in starts : x <= y
                 e == CHOOSE x \in Ends(i) : \A y \in Ends(i) : y <= x
             IN  <<i, e + 15>>

\* match.match(/(\.\/)(.*)(\.component\.html)/)[2]; Undef when there is no match
ComponentName(match) ==
    LET Ends(j) == {k \in (j + 2)..Len(match) : MatchAt(match, S_dot_component_html, k)}
        starts  == {j \in 1..Len(match) : MatchAt(match, S_dot_slash, j) /\ Ends(j) # {}}
    IN  IF starts = {} THEN Undef
        ELSE LET j == CHOOSE x \in starts : \A y \in starts : x <= y
                 k == CHOOSE x \in Ends(j) : \A y \in Ends(j) : y <= x
             IN  SubSeq(match, j + 2, k - 1)

\* componentTemplateURL
ComponentTemplateURL(componentName) ==
    IF componentName = S_app
    THEN S_src_app \o componentName \o S_dot_component_html
    ELSE S_src_app_components \o componentName \o S_slash \o componentName
             \o S_dot_component_html

\* what fs.readFileSync(path) holds, as one element of the text
FileContent(path) == <<path>>

Unchanged(match) == [text |-> match, read |-> Empty, threw |-> FALSE]

\* mutant: the folder options are ignored and the template is always inlined
Replacement_AlwaysInlines(cfg, match, readable) ==
    LET componentName == ComponentName(match)
    IN  IF componentName = Undef THEN Unchanged(match)
        ELSE IF componentName = S_my THEN Unchanged(match)
        ELSE [text |-> IF readable
                       THEN S_template_open
                                \o FileContent(ComponentTemplateURL(componentName))
                                \o S_backtick
                       ELSE Empty,
              read |-> ComponentTemplateURL(componentName), threw |-> ~readable]

\* the replacement callback handed to magicString.replace; readable tells whether
\* readFileSync can read the template file
Replacement(cfg, match, readable) ==
    LET componentName == ComponentName(match)
    IN  IF componentName = Undef THEN Unchanged(match)
        ELSE IF componentName = S_my THEN Unchanged(match)
        ELSE IF ~cfg.inlineTemplates /\ Truthy(cfg.newParentFolder)
        THEN IF ~cfg.keepFolderStructure
             THEN Unchanged(Replace(match, S_dot_slash, cfg.newParentFolder))
             ELSE IF componentName = S_app
             THEN Unchanged(Replace(match, S_dot_slash, S_slash \o cfg.newParentFolder))
             ELSE Unchanged(Replace(match, S_dot_slash,
                                    S_components \o componentName \o S_slash
                                        \o cfg.newParentFolder))
        ELSE [text |-> IF readable
                       THEN S_template_open
                                \o FileContent(ComponentTemplateURL(componentName))
                                \o S_backtick
                       ELSE Empty,
              read |-> ComponentTemplateURL(componentName), threw |-> ~readable]

\* ReplaceTemplateUrlPlugin.transform(code)
transform(cfg, code, readable) ==
    LET m == TemplateUrlMatch(code)
    IN  IF m = <<>>
        THEN [matched |-> FALSE, code |-> code, read |-> Empty, threw |-> FALSE]
        ELSE LET rep == Replacement(cfg, SubSeq(code, m[1], m[2]), readable)
             IN  [matched |-> TRUE,
                  code |-> IF rep.threw THEN Empty
                           ELSE SubSeq(code, 1, m[1] - 1) \o rep.text
                                    \o SubSeq(code, m[2] + 1, Len(code)),
                  read |-> rep.read, threw |-> rep.threw]

InitTemplate ==
    /\ config \in TemplateConfigs
    /\ lastTransform = NoTransform
    /\ NoBuilder
    /\ NoHost
    /\ NoHarness
    /\ NoStandalone

TemplateTransform ==
    /\ \E input \in TemplateInputs, readable \in BOOLEAN :
          LET out == transform(config, CodeOf(input), readable)
          IN  lastTransform' = [called |-> TRUE, input |-> input, matched |-> out.matched,
                                code |-> out.code, read |-> out.read, threw |-> out.threw]
    /\ UNCHANGED config
    /\ UNCHANGED <<builderVars, hookVars, harnessVars, standaloneVars>>

NextTemplate == TemplateTransform

SpecTemplate == InitTemplate /\ [][NextTemplate]_vars

-----------------------------------------------------------------------------
(* Reading the record of the last operation *)

IsPluginEvent(ev) == ev.kind = "plugin"

PluginEventsOf(op) == {i \in 1..Len(op.events) : IsPluginEvent(op.events[i])}

\* the host event (originalReadFile or emit) that opened the run position i lies in
RunStart(events, i) ==
    CHOOSE j \in 1..(i - 1) :
        /\ ~IsPluginEvent(events[j])
        /\ \A k \in (j + 1)..(i - 1) : IsPluginEvent(events[k])

\* the text the loop holds when it reaches event i: the last truthy output of the
\* run so far, the host's text when there is none
CarriedText(events, i) ==
    LET s == RunStart(events, i)
        kept == {j \in (s + 1)..(i - 1) : Truthy(events[j].output)}
    IN  IF kept = {} THEN events[s].output
        ELSE events[CHOOSE j \in kept : \A k \in kept : k <= j].output

\* the supplied plugins an environment selects for a stage, in constructor order
SelectedFor(ps, e, te, stage) ==
    LET Sel(p) == /\ p.stage = stage
                  /\ IF e = "test" THEN p.apply \in {"test", te} ELSE p.apply = e
    IN  SelectSeq(ps, Sel)

\* the plugin names of the run that event s opens
RunNames(events, s) ==
    LET last == CHOOSE j \in s..Len(events) :
                    /\ \A k \in (s + 1)..j : IsPluginEvent(events[k])
                    /\ (j = Len(events) \/ ~IsPluginEvent(events[j + 1]))
    IN  [k \in 1..(last - s) |-> events[s + k].plugin]

IsPrefix(a, b) == Len(a) <= Len(b) /\ \A k \in 1..Len(a) : a[k] = b[k]

StageOfOp(op) == IF op.op = "buildFile" THEN "post-transform" ELSE "read"

-----------------------------------------------------------------------------
(* C2 *)

PluginNamed(name) == CHOOSE p \in PluginPool : p.name = name

\* C2: a builder constructed with environment E only runs plugins selected for E.
\* For E dev or production no plugin with another apply is in any list of
\* pluginMapping, has had setup called, or appears in a readFile or buildFile run;
\* for E test every plugin that runs has apply test or apply testEnv.
C2_OnlySelectedPluginsRun ==
    /\ env \in {"dev", "production"} =>
          /\ \A e \in Envs, s \in Stages :
                \A i \in 1..Len(pluginMapping[e][s]) : pluginMapping[e][s][i].apply = env
          /\ \A i \in 1..Len(setupCalled) : PluginNamed(setupCalled[i]).apply = env
          /\ \A i \in PluginEventsOf(lastOp) : lastOp.events[i].apply = env
    /\ env = "test" =>
          \A i \in PluginEventsOf(lastOp) : lastOp.events[i].apply \in {"test", testEnv}

\* a dev builder that was handed a plugin of another environment has built a file
\* and run a plugin on it
C2_Witness ==
    /\ env = "dev"
    /\ \E i \in 1..Len(plugins) : plugins[i].apply # "dev"
    /\ lastOp.op = "buildFile" /\ lastOp.returned
    /\ PluginEventsOf(lastOp) # {}

-----------------------------------------------------------------------------
(* C3 *)

Count(seq, x) == Cardinality({i \in 1..Len(seq) : seq[i] = x})

\* C3: in a test builder (testEnv dev or production) every supplied plugin whose
\* apply is testEnv is in the test list of its stage, and every supplied plugin
\* whose apply is testEnv or test runs exactly once for each file its stage
\* handles: once per root file read, once per file buildFile emits.
C3_TestEnvPluginsRunOncePerFile ==
    env = "test" =>
        /\ \A i \in 1..Len(plugins) :
              plugins[i].apply = testEnv =>
                  Count(pluginMapping["test"][plugins[i].stage], plugins[i]) = 1
        /\ \A s \in 1..Len(lastOp.events) :
              ~IsPluginEvent(lastOp.events[s]) =>
                  \A i \in 1..Len(plugins) :
                      (plugins[i].apply \in {"test", testEnv}
                          /\ plugins[i].stage = StageOfOp(lastOp)) =>
                          Count(RunNames(lastOp.events, s), plugins[i].name) = 1

\* the same, for the runs no plugin aborted by raising
C3_HoldsUnlessAPluginThrows ==
    lastOp.threw \/ C3_TestEnvPluginsRunOncePerFile

-----------------------------------------------------------------------------
(* C4 *)

\* C4 as stated: plugins of a stage run in constructor order and each receives
\* the output of the plugin applied before it (the first one the host's text).
C4_EachPluginReceivesPreviousOutput ==
    /\ \A s \in 1..Len(lastOp.events) :
          ~IsPluginEvent(lastOp.events[s]) =>
              IsPrefix(RunNames(lastOp.events, s),
                       [k \in 1..Len(SelectedFor(plugins, env, testEnv, StageOfOp(lastOp)))
                           |-> SelectedFor(plugins, env, testEnv, StageOfOp(lastOp))[k].name])
    /\ \A i \in PluginEventsOf(lastOp) :
          lastOp.events[i].input = lastOp.events[i - 1].output

\* C4 amended: plugins of a stage run in constructor order (all of them unless one
\* raises), and each receives the latest non-empty output of the plugins before
\* it in the run, or the host's text when none of them returned any.
C4_PluginsRunInOrderOnCarriedText ==
    /\ \A s \in 1..Len(lastOp.events) :
          ~IsPluginEvent(lastOp.events[s]) =>
              LET names == RunNames(lastOp.events, s)
                  sel   == SelectedFor(plugins, env, testEnv, StageOfOp(lastOp))
                  want  == [k \in 1..Len(sel) |-> sel[k].name]
              IN  /\ IsPrefix(names, want)
                  /\ (~lastOp.threw => names = want)
    /\ \A i \in PluginEventsOf(lastOp) :
          lastOp.events[i].input = CarriedText(lastOp.events, i)

\* two plugins ran on one file, the first returned nothing and the second got the
\* text the first was given
C4_Witness ==
    \E i \in PluginEventsOf(lastOp) :
        /\ i - 1 \in PluginEventsOf(lastOp)
        /\ ~Truthy(lastOp.events[i - 1].output)
        /\ Truthy(lastOp.events[i].input)
        /\ lastOp.events[i].input = lastOp.events[i - 1].input

-----------------------------------------------------------------------------
(* C5 *)

\* the stage discipline of both operations: a program set-up only runs read
\* plugins, each run opened by the original readFile of that file; buildFile only
\* runs post-transform plugins, after the one emit that opens its events
StageDiscipline ==
    /\ lastOp.op = "setupAngularProgram" =>
          \A i \in 1..Len(lastOp.events) :
              IF IsPluginEvent(lastOp.events[i])
              THEN /\ lastOp.events[i].stage = "read"
                   /\ lastOp.events[RunStart(lastOp.events, i)].kind = "originalReadFile"
                   /\ lastOp.events[RunStart(lastOp.events, i)].file = lastOp.events[i].file
              ELSE lastOp.events[i].kind = "originalReadFile"
    /\ lastOp.op = "buildFile" =>
          \A i \in 1..Len(lastOp.events) :
              IF i = 1 THEN lastOp.events[i].kind = "emit"
              ELSE /\ IsPluginEvent(lastOp.events[i])
                   /\ lastOp.events[i].stage = "post-transform"
                   /\ lastOp.events[i].file = lastOp.file

\* C5 as stated: the stage discipline, and the text buildFile returns is the
\* output of the last post-transform plugin.
C5_ResultIsLastPluginOutput ==
    /\ StageDiscipline
    /\ (lastOp.op = "buildFile" /\ lastOp.returned /\ PluginEventsOf(lastOp) # {}) =>
          lastOp.text = lastOp.events[Len(lastOp.events)].output

\* C5 amended: the stage discipline, and the text buildFile returns is the output
\* of the last post-transform plugin that returned a non-empty output, or the
\* emitted output when no plugin did.
C5_ResultIsLastKeptOutput ==
    /\ StageDiscipline
    /\ (lastOp.op = "buildFile" /\ lastOp.returned) =>
          /\ lastOp.events # <<>>
          /\ lastOp.text = CarriedText(lastOp.events, Len(lastOp.events) + 1)

\* buildFile returned after a last post-transform plugin that returned nothing
C5_Witness ==
    /\ lastOp.op = "buildFile" /\ lastOp.returned
    /\ PluginEventsOf(lastOp) # {}
    /\ lastOp.events[Len(lastOp.events)].output = Undef
    /\ Truthy(lastOp.text)

-----------------------------------------------------------------------------
(* C1 *)

IsBuildAngularPlugin == host \in {"BuildAngularPlugin", "BuildAngularPluginInline"}

\* C1: in BuildAngularPlugin a buildStart or transform call whose validation has
\* completed exits the process if and only if the diagnostics were non-empty and
\* the build is not a dev build; in a dev build neither hook ever exits.
C1_ExitsOnDiagnosticsIffNotDev ==
    /\ (IsBuildAngularPlugin /\ lastHook.hook \in {"buildStart", "transform"}) =>
          ((lastHook.outcome = "exit") <=> (lastHook.diagnostics /\ ~isDev))
    /\ (IsBuildAngularPlugin /\ isDev) => ~exited

\* the same for the BuildAngularPlugin of plugins.ts alone
C1_HoldsInPluginsTs ==
    host = "BuildAngularPlugin" => C1_ExitsOnDiagnosticsIffNotDev

-----------------------------------------------------------------------------
(* C6 *)

\* the file id the hook hands to the builder
BuildTarget == IF host = "AngularTestsPlugin" THEN Resolve(lastHook.file) ELSE lastHook.file

\* C6: when a transform hook is asked about an id that has no TypeScript extension
\* or that the builder has no source file for, the build step returns no result
\* without an emit and without a post-transform plugin, and the hook answers with
\* no transform and raises nothing (unless it left through the process exit that
\* non-dev diagnostics cause before the build step).
C6_NoTransformForUnknownFiles ==
    (lastHook.hook = "transform"
        /\ (~IsTypeScriptId(BuildTarget) \/ ~HasSourceFile(builder, BuildTarget))) =>
        /\ lastHook.outcome \in {"none", "exit"}
        /\ lastHook.outcome = "exit" => (lastHook.diagnostics /\ ~isDev)
        /\ lastHook.built =>
              /\ lastOp.op = "buildFile"
              /\ lastOp.file = BuildTarget
              /\ ~lastOp.returned
              /\ ~lastOp.threw
              /\ lastOp.events = <<>>

\* BuildAngularPlugin.transform ran buildFile on a TypeScript id the program does
\* not hold and returned nothing
C6_Witness ==
    /\ host = "BuildAngularPlugin"
    /\ lastHook.hook = "transform" /\ lastHook.built
    /\ IsTypeScriptId(lastHook.file)
    /\ ~HasSourceFile(builder, lastHook.file)
    /\ lastHook.outcome = "none"

-----------------------------------------------------------------------------
(* C8 *)

\* C8: while a transform call of BuildAngularPlugin is suspended in its await the
\* program and the builder stay the ones it started the analysis on, so the
\* program validateFiles analysed is the program buildFile emits from.
C8_EmitsFromTheAnalysedProgram ==
    host = "BuildAngularPlugin" =>
        /\ \A call \in inflight :
              /\ call.awaited = currentAngularProgram.id
              /\ call.awaited = builder.id
        /\ (lastHook.hook = "transform" /\ lastHook.built) =>
              lastHook.analysed = lastHook.emitted

\* the part of C8 about other transform calls: a step that is not a hot update
\* leaves the program and the builder of a suspended transform alone
C8_TransformsLeaveTheProgramAlone ==
    [][(host = "BuildAngularPlugin" /\ inflight # {} /\ programCount' = programCount)
          => (currentAngularProgram'.id = currentAngularProgram.id /\ builder' = builder)]_vars

-----------------------------------------------------------------------------
(* C9 *)

\* a file id without its extension
Stem(file) ==
    CASE EndsWith(file, S_html) -> SubSeq(file, 1, Len(file) - Len(S_html))
      [] EndsWith(file, S_less) -> SubSeq(file, 1, Len(file) - Len(S_less))
      [] EndsWith(file, S_ts)   -> SubSeq(file, 1, Len(file) - Len(S_ts))
      [] OTHER                  -> file

\* the three modules of the component a template or style file belongs to
ComponentOf(file) == {Stem(file) \o S_ts, Stem(file) \o S_html, Stem(file) \o S_less}

\* C9: when the changed file ends with .html or .less, the affected modules
\* handleHotUpdate returns hold the component's .ts, .html and .less modules,
\* each whenever the module graph has it.
C9_AffectedModulesCoverTheComponent ==
    (lastHook.hook = "handleHotUpdate"
        /\ (EndsWith(lastHook.file, S_html) \/ EndsWith(lastHook.file, S_less))) =>
        \A m \in ComponentOf(lastHook.file) \cap lastHook.graph :
            m \in Range(lastHook.affected)

\* the same for a changed style file alone
C9_HoldsForStyleFiles ==
    EndsWith(lastHook.file, S_less) => C9_AffectedModulesCoverTheComponent

-----------------------------------------------------------------------------
(* C7 *)

\* the positions of the calls of one kind in the session's call sequence
CallIndex(name) == {i \in 1..Len(sessionCalls) : sessionCalls[i].call = name}

\* C7: sessionStarted is called before the test file is imported and before
\* Jasmine executes; sessionFinished is called only from jasmineDone, never
\* before sessionStarted, and at most once in a session.
C7_SessionProtocolInOrder ==
    /\ \A i \in CallIndex("importTestFile") \cup CallIndex("execute")
                    \cup CallIndex("sessionFinished") :
          \E j \in CallIndex("sessionStarted") : j < i
    /\ \A i \in CallIndex("sessionFinished") : sessionCalls[i].from = "jasmineDone"
    /\ Cardinality(CallIndex("sessionFinished")) <= 1

\* a session that ran specs and was finished by jasmineDone
C7_Witness ==
    /\ CallIndex("sessionFinished") # {}
    /\ CallIndex("execute") # {}
    /\ allSpecs # <<>>
    /\ jasmineState = "done"

-----------------------------------------------------------------------------
(* C10 *)

\* the file part and the component name of a templateUrl "./<name>.component.html"
UrlFile(url) == IF MatchAt(url, S_dot_slash, 1) THEN SubSeq(url, 3, Len(url)) ELSE url
UrlName(url) == SubSeq(UrlFile(url), 1, Len(UrlFile(url)) - Len(S_dot_component_html))

\* the folder a kept URL is moved to
ExpectedFolder(cfg, name) ==
    IF ~cfg.keepFolderStructure THEN cfg.newParentFolder
    ELSE IF name = S_app THEN S_slash \o cfg.newParentFolder
    ELSE S_components \o name \o S_slash \o cfg.newParentFolder

ExpectedRewrite(cfg, input) ==
    <<"{">> \o S_templateUrlKey \o <<" ", input.quote>>
        \o ExpectedFolder(cfg, UrlName(input.url)) \o UrlFile(input.url)
        \o <<input.quote, "}">>

ExpectedInline(input) ==
    <<"{">> \o S_template_open \o FileContent(ComponentTemplateURL(UrlName(input.url)))
        \o S_backtick \o <<"}">>

Inlines(cfg) == cfg.inlineTemplates \/ ~Truthy(cfg.newParentFolder)

-----------------------------------------------------------------------------
(* TranspileDecoratorsVite (plugins.mjs), as vite.config.js registers it *)

Modes == {"development", "production"}
\* ./tsconfig.json is readable JSON, is missing, or is not JSON
TsConfigs == {"ok", "missing", "invalid"}

F_tsx == Cwd \o S_src \o <<"v",".","t","s","x">>
\* the module ids Vite may pass to a transform hook
TranspileIds == {F_main, F_comp, F_dts, F_tmpl, F_style, F_tsx}
\* the module texts: empty, plain, with a decorator, with a type annotation
TranspileCodes == {Empty, <<"class">>, <<"decorator", "class">>, <<"type", "class">>}

\* the three prepend calls, each in front of the one before
PrependedImports ==
    <<"import '@angular/compiler'", "import 'reflect-metadata'", "import 'zone.js'">>

\* typescript's transpileModule: type annotations go, decorators become __decorate calls
transpileModule(text) ==
    LET lowered == [i \in 1..Len(text) |->
                        IF text[i] = "decorator" THEN "__decorate" ELSE text[i]]
    IN  SelectSeq(lowered, LAMBDA tok : tok # "type")

\* the transform hook: Undef when it returns nothing
TranspileDecoratorsVite_transform(code, id, tsc) ==
    IF ~EndsWith(id, S_ts) THEN Undef
    ELSE IF tsc # "ok" THEN Throw
    \* MagicString refuses to overwrite the zero-length range (0, 0)
    ELSE IF Len(code) = 0 THEN Throw
    ELSE PrependedImports \o transpileModule(PrependedImports \o code)

InitTranspile ==
    /\ mode \in Modes
    /\ tsConfig \in TsConfigs
    /\ lastTranspile = NoTranspile
    /\ NoBuilder
    /\ NoHost
    /\ NoHarness
    /\ NoTemplatePlugin
    /\ NoCoveragePlugin
    /\ NoLinkerPlugin
    /\ NoServer

\* Vite calls the hook of every plugin in the list, whatever the mode: the
\* plugin object has no apply property and the config does not filter it
TranspileTransform ==
    /\ \E id \in TranspileIds, code \in TranspileCodes :
          lastTranspile' = [called |-> TRUE, id |-> id, code |-> code,
                            result |-> TranspileDecoratorsVite_transform(code, id, tsConfig)]
    /\ UNCHANGED <<mode, tsConfig>>
    /\ UNCHANGED <<builderVars, hookVars, harnessVars, templateVars, coverageVars, linkerVars, serverVars>>

NextTranspile == TranspileTransform

SpecTranspile == InitTranspile /\ [][NextTranspile]_vars

\* C11: TranspileDecoratorsVite applies only in development: in a production
\* build its transform changes no file (returns no transform), and in
\* development it returns a transform exactly for the ids ending in ".ts".
C11_TranspilesOnlyInDevelopment ==
    lastTranspile.called =>
        /\ mode = "production" => lastTranspile.result = Undef
        /\ mode = "development" =>
              (lastTranspile.result # Undef <=> EndsWith(lastTranspile.id, S_ts))

-----------------------------------------------------------------------------
(* instrumentFilesPlugin (builderPlugins.ts): coverage markers around ngtsc *)

\* A module text is the sequence of its property assignments.  owner tells a
\* class property (name = init;) from an assignment in the constructor
\* (this.name = init;), init is how the initialiser starts, marker is the
\* istanbul counter wrapped around the initialiser: name = (marker, init);
NoMarker == [cov |-> "", s |-> 0]

CoverageFiles == {F_comp, F_nosel}
\* istanbul's coverage function of a file, cov_<hash of the path>
CovName(fileId) == IF fileId = F_comp THEN "cov_comp" ELSE "cov_nosel"

LowerCase == {"a","b","c","d","e","f","g","h","i","j","k","l","m",
              "n","o","p","q","r","s","t","u","v","w","x","y","z"}
UpperCase == {"A","B","C","D","E","F","G","H","I","J","K","L","M",
              "N","O","P","Q","R","S","T","U","V","W","X","Y","Z"}
\* [a-zA-Z]
Letters == LowerCase \cup UpperCase

\* the property assignments a module may hold
Assignments ==
    { [owner |-> "class", name |-> <<"a">>, init |-> "input", marker |-> NoMarker],
      [owner |-> "class", name |-> <<"x","_","a">>, init |-> "input", marker |-> NoMarker],
      [owner |-> "class", name |-> <<"b">>, init |-> "output", marker |-> NoMarker],
      [owner |-> "class", name |-> <<"a">>, init |-> "other", marker |-> NoMarker],
      [owner |-> "this", name |-> <<"a">>, init |-> "input", marker |-> NoMarker] }

\* how many property assignments a module holds at most
MaxProps == 2
\* how many times the host reads a file in one behaviour
MaxReads == 2
CoverageCodes == UNION {[1..n -> Assignments] : n \in 0..MaxProps}

\* babel-plugin-istanbul: the initialiser of every class property is wrapped
\* with the next statement counter of the file; an assignment statement gets
\* its counter as a statement of its own in front of it
istanbul(fileId, code) ==
    [i \in 1..Len(code) |->
        IF code[i].owner = "class"
        THEN [code[i] EXCEPT !.marker = [cov |-> CovName(fileId), s |-> i]]
        ELSE code[i]]

\* the longest run of letters that ends the name: where ([a-zA-Z])+ can start
\* so that " ?=" follows it
LetterSuffix(name) ==
    LET k == CHOOSE k \in 0..Len(name) :
                /\ \A j \in (Len(name) - k + 1)..Len(name) : name[j] \in Letters
                /\ k = Len(name) \/ name[Len(name) - k] \notin Letters
    IN  SubSeq(name, Len(name) - k + 1, Len(name))

\* /([a-zA-Z])+ ?= ?\(cov_(.*), (input|output)(.*);/ matches in the line
ReadMatches(line) ==
    /\ line.marker # NoMarker
    /\ line.init \in {"input", "output"}
    /\ LetterSuffix(line.name) # <<>>

\* coverageMapping[fileId][propertyName] = marker, keys in insertion order
SetKey(entries, propertyName, marker) ==
    IF \E i \in 1..Len(entries) : entries[i].prop = propertyName
    THEN [i \in 1..Len(entries) |->
            IF entries[i].prop = propertyName
            THEN [entries[i] EXCEPT !.marker = marker] ELSE entries[i]]
    ELSE Append(entries, [prop |-> propertyName, marker |-> marker])

\* the replaceAll callback, over the matches from first to last
RECURSIVE RecordMarkers(_, _, _)
RecordMarkers(entries, lines, i) ==
    IF i > Len(lines) THEN entries
    ELSE RecordMarkers(IF ReadMatches(lines[i])
                       THEN SetKey(entries, LetterSuffix(lines[i].name), lines[i].marker)
                       ELSE entries,
                       lines, i + 1)

\* the read hook; returned = FALSE is the bare return of line 327
instrumentFilesPlugin_read(included, mapping, fileId, code, babel) ==
    IF fileId \notin included \/ code = <<>>
    THEN [returned |-> TRUE, code |-> code, instrumented |-> <<>>, mapping |-> mapping]
    ELSE IF babel = "none"
    THEN [returned |-> FALSE, code |-> <<>>, instrumented |-> <<>>, mapping |-> mapping]
    ELSE LET instrumentedRes == istanbul(fileId, code)
         IN  [returned |-> TRUE,
              code |-> [i \in 1..Len(instrumentedRes) |->
                          IF ReadMatches(instrumentedRes[i])
                          THEN [instrumentedRes[i] EXCEPT !.marker = NoMarker]
                          ELSE instrumentedRes[i]],
              instrumented |-> instrumentedRes,
              mapping |-> [mapping EXCEPT ![fileId] = RecordMarkers(@, instrumentedRes, 1)]]

\* ngtsc's emit: every class property becomes an assignment in the constructor
emitAssignments(text) == [i \in 1..Len(text) |-> [text[i] EXCEPT !.owner = "this"]]

\* new RegExp(`this\\.${propertyName} ?= ?(input|output)(.*);`) matches in the line
TransformMatches(line, propertyName) ==
    /\ line.owner = "this"
    /\ line.name = propertyName
    /\ line.init \in {"input", "output"}
    /\ line.marker = NoMarker

\* the line of the first match, 0 when there is none
FirstMatch(code, propertyName) ==
    IF \E i \in 1..Len(code) : TransformMatches(code[i], propertyName)
    THEN CHOOSE i \in 1..Len(code) :
            /\ TransformMatches(code[i], propertyName)
            /\ \A j \in 1..(i - 1) : ~TransformMatches(code[j], propertyName)
    ELSE 0

\* the forEach over Object.keys(coverageMapping[fileId])
RECURSIVE ReinsertMarkers(_, _, _, _)
ReinsertMarkers(entries, code, transformedCode, k) ==
    IF k > Len(entries) THEN transformedCode
    ELSE LET assignment == FirstMatch(code, entries[k].prop)
             at == FirstMatch(transformedCode, entries[k].prop)
             replaced ==
                IF at = 0 THEN transformedCode
                ELSE [transformedCode EXCEPT
                        ![at] = [@ EXCEPT !.marker = entries[k].marker,
                                          !.init = IF assignment = 0 THEN "undefined"
                                                   ELSE code[assignment].init]]
         IN  ReinsertMarkers(entries, code, replaced, k + 1)

\* the transform hook
instrumentFilesPlugin_transform(mapping, fileId, code) ==
    IF mapping[fileId] = <<>> \/ code = <<>> THEN code
    ELSE ReinsertMarkers(mapping[fileId], code, code, 1)

NoProgramFile == [read |-> FALSE, source |-> <<>>, babel |-> "ok",
                  instrumented |-> <<>>, text |-> <<>>]

InitCoverage ==
    /\ coverageConfig \in {CoverageFiles, {F_comp}}
    /\ coverageMapping = [f \in CoverageFiles |-> <<>>]
    /\ programFiles = [f \in CoverageFiles |-> NoProgramFile]
    /\ readCount = 0
    /\ lastCoverage = NoCoverage
    /\ NoBuilder
    /\ NoHost
    /\ NoHarness
    /\ NoTemplatePlugin
    /\ NoTranspilePlugin
    /\ NoLinkerPlugin
    /\ NoServer

\* The host reads a file while a program is created: the read hook runs on
\* what is on disk, and the program keeps its output unless it is empty.
CoverageRead ==
    /\ readCount < MaxReads
    /\ readCount' = readCount + 1
    /\ lastCoverage' = NoCoverage
    /\ \E fileId \in CoverageFiles, code \in CoverageCodes, babel \in {"ok", "none"} :
          LET r == instrumentFilesPlugin_read(coverageConfig, coverageMapping,
                                              fileId, code, babel)
          IN  /\ coverageMapping' = r.mapping
              /\ programFiles' = [programFiles EXCEPT ![fileId] =
                    [read |-> TRUE, source |-> code, babel |-> babel,
                     instrumented |-> r.instrumented,
                     text |-> IF r.returned /\ r.code # <<>> THEN r.code ELSE code]]
    /\ UNCHANGED coverageConfig
    /\ UNCHANGED <<builderVars, hookVars, harnessVars, templateVars, transpileVars, linkerVars, serverVars>>

\* A file of the program is compiled: ngtsc emits it from the text the
\* program holds and the transform hook runs on the emitted code.
CoverageTransform ==
    /\ \E fileId \in CoverageFiles :
          /\ programFiles[fileId].read
          /\ lastCoverage' =
                [called |-> TRUE, file |-> fileId,
                 source |-> programFiles[fileId].source,
                 babel |-> programFiles[fileId].babel,
                 instrumented |-> programFiles[fileId].instrumented,
                 text |-> programFiles[fileId].text,
                 code |-> instrumentFilesPlugin_transform(coverageMapping, fileId,
                              emitAssignments(programFiles[fileId].text))]
    /\ UNCHANGED <<coverageConfig, coverageMapping, programFiles, readCount>>
    /\ UNCHANGED <<builderVars, hookVars, harnessVars, templateVars, transpileVars, linkerVars, serverVars>>

NextCoverage == CoverageRead \/ CoverageTransform

SpecCoverage == InitCoverage /\ [][NextCoverage]_vars

\* the read hook took the marker out of line i of the compiled file
Stripped(i) ==
    /\ i <= Len(lastCoverage.instrumented)
    /\ lastCoverage.instrumented[i].marker # NoMarker
    /\ lastCoverage.text[i].marker = NoMarker

\* C12 holds for a file compiled once whose marked properties have names
\* made of letters only, each name once in the file
C12_HoldsForPlainNames ==
    /\ lastCoverage.called
    /\ readCount = 1
    /\ Len(lastCoverage.code) = MaxProps
    /\ \A i \in 1..Len(lastCoverage.code) :
          Stripped(i) /\ lastCoverage.code[i].marker = lastCoverage.instrumented[i].marker

\* C12: coverage markers round-trip through instrumentFilesPlugin: every
\* marker the read hook strips from an input()/output() property assignment
\* of a file is back on that same assignment after the transform hook for
\* that file, and no assignment carries a marker that is not its own.
C12_StrippedMarkersComeBack ==
    lastCoverage.called =>
        \A i \in 1..Len(lastCoverage.code) :
            /\ Stripped(i) =>
                  lastCoverage.code[i].marker = lastCoverage.instrumented[i].marker
            /\ lastCoverage.code[i].marker # NoMarker =>
                  /\ i <= Len(lastCoverage.instrumented)
                  /\ lastCoverage.code[i].marker = lastCoverage.instrumented[i].marker

-----------------------------------------------------------------------------
(* AngularLinkerPlugin (plugins.ts) *)

S_node_modules_dir == <<"n","o","d","e","_","m","o","d","u","l","e","s">>
L_mjs == Cwd \o S_node_modules_dir \o <<"/","l","i","b","/","i",".","m","j","s">>
L_css == Cwd \o S_node_modules_dir \o <<"/","l","i","b","/","s",".","c","s","s">>
L_src == Cwd \o S_src \o S_node_modules_dir \o <<".","t","s">>
\* the module ids of a build: two under node_modules, two of the application
LinkerIds == {L_mjs, L_css, L_src, F_main}
\* module texts: partially compiled Angular code, plain JavaScript, a stylesheet
LinkerCodes == {<<"ngDeclareComponent", "js">>, <<"js">>, <<"css">>}

\* what transformAsync can do with a text: reject (Babel cannot parse it),
\* resolve to null, or resolve to a result with or without code
BabelResults(code) ==
    IF HasToken(code, "css") THEN {"rejects"} ELSE {"code", "nullCode", "null"}

\* the linker plugin: each partial declaration becomes a full definition
defaultLinkerPlugin(code) ==
    [i \in 1..Len(code) |->
        IF code[i] = "ngDeclareComponent" THEN "defineComponent" ELSE code[i]]

\* finalResult of line 171: Undef stands for null
transformAsync(code, babel) ==
    CASE babel = "code"     -> [isNull |-> FALSE, code |-> defaultLinkerPlugin(code)]
      [] babel = "nullCode" -> [isNull |-> FALSE, code |-> Undef]
      [] OTHER              -> [isNull |-> TRUE, code |-> Undef]

\* mutant: finalResult?.code, without the fallback
CodeOrEmpty_NoFallback(finalResult) ==
    IF finalResult.isNull THEN Undef ELSE finalResult.code

\* finalResult?.code ?? ""
CodeOrEmpty(finalResult) ==
    LET optional == IF finalResult.isNull THEN Undef ELSE finalResult.code
    IN  IF optional = Undef THEN Empty ELSE optional

NotLinked == [done |-> FALSE, input |-> Empty, babelCalled |-> FALSE, babel |-> "",
              kind |-> "none", code |-> Undef]

\* AngularLinkerPlugin.transform; kind is none (bare return), result or rejected
AngularLinkerPlugin_transform(code, id, babel) ==
    IF ~Includes(id, S_node_modules_dir)
    THEN [NotLinked EXCEPT !.done = TRUE, !.input = code]
    ELSE IF babel = "rejects"
    THEN [done |-> TRUE, input |-> code, babelCalled |-> TRUE, babel |-> babel,
          kind |-> "rejected", code |-> Undef]
    ELSE [done |-> TRUE, input |-> code, babelCalled |-> TRUE, babel |-> babel,
          kind |-> "result", code |-> CodeOrEmpty(transformAsync(code, babel))]

InitLinker ==
    /\ linked = [id \in LinkerIds |-> NotLinked]
    /\ NoBuilder
    /\ NoHost
    /\ NoHarness
    /\ NoTemplatePlugin
    /\ NoTranspilePlugin
    /\ NoCoveragePlugin
    /\ NoServer

\* the build transforms each module once
LinkerTransform ==
    /\ \E id \in LinkerIds, code \in LinkerCodes :
          /\ ~linked[id].done
          /\ \E babel \in BabelResults(code) :
                linked' = [linked EXCEPT ![id] = AngularLinkerPlugin_transform(code, id, babel)]
    /\ UNCHANGED <<builderVars, hookVars, harnessVars, templateVars>>
    /\ UNCHANGED <<transpileVars, coverageVars, serverVars>>

NextLinker == LinkerTransform

SpecLinker == InitLinker /\ [][NextLinker]_vars

\* C16 as stated: an id without "node_modules" gets no transform and Babel is
\* not invoked; an id with it gets a result whose code is a string, the linked
\* code or the empty string when Babel returns no result.
C16_LinksOnlyNodeModules ==
    \A id \in LinkerIds :
        linked[id].done =>
            IF ~Includes(id, S_node_modules_dir)
            THEN linked[id].kind = "none" /\ ~linked[id].babelCalled
            ELSE /\ linked[id].kind = "result"
                 /\ linked[id].code # Undef
                 /\ linked[id].code \in {defaultLinkerPlugin(linked[id].input), Empty}

\* C16, amended: the same whenever Babel resolves; when Babel rejects (it
\* cannot parse the module) the transform rejects too and returns no result.
C16_LinksOnlyNodeModulesUnlessBabelRejects ==
    \A id \in LinkerIds :
        linked[id].done =>
            IF ~Includes(id, S_node_modules_dir)
            THEN linked[id].kind = "none" /\ ~linked[id].babelCalled
            ELSE /\ linked[id].babelCalled
                 /\ IF linked[id].babel = "rejects"
                    THEN linked[id].kind = "rejected"
                    ELSE /\ linked[id].kind = "result"
                         /\ linked[id].code # Undef
                         /\ linked[id].code =
                               IF linked[id].babel = "code"
                               THEN defaultLinkerPlugin(linked[id].input) ELSE Empty

\* a partially compiled module was linked, Babel gave no result for another
\* module, and an application module was left alone
C16_Witness ==
    /\ linked[L_mjs].done /\ linked[L_mjs].babel = "code"
    /\ HasToken(linked[L_mjs].code, "defineComponent")
    /\ linked[L_src].done /\ linked[L_src].babel = "null" /\ linked[L_src].code = Empty
    /\ linked[F_main].done /\ linked[F_main].kind = "none"

-----------------------------------------------------------------------------
(* The dev-server middlewares of ReplaceTemplateUrlPlugin (plugins.mjs) and  *)
(* GlobalStylesPlugin (plugins.ts)                                           *)

\* how many requests reach the middleware in one behaviour
MaxRequests == 2

Digits == {"0","1","2","3","4","5","6","7","8","9"}
\* \w
WordChars == Letters \cup Digits \cup {"_"}

S_css == <<".","c","s","s">>
S_main_less == <<"m","a","i","n",".","l","e","s","s">>
S_vars_less == <<"v","a","r","s",".","l","e","s","s">>
\* GlobalStylesPlugin("src/styles", "main.less")
globalStylesDir == <<"s","r","c","/","s","t","y","l","e","s">>
entryStylesheet == S_main_less

\* the URLs a browser may ask for; Undef is a request without a url
TemplateUrls ==
    { S_slash \o S_app \o S_dot_component_html,
      <<"/","n","a","v">> \o S_dot_component_html,
      <<"/","x","/","n","a","v">> \o S_dot_component_html,
      <<"/","n","-","b">> \o S_dot_component_html,
      S_slash \o S_dot_component_html,
      S_slash \o S_src \o S_main_ts,
      Undef }
StyleUrls ==
    { <<"/","m","a","i","n">> \o S_css,
      S_slash \o S_vars_less,
      <<"/","v","a","r","s">> \o S_css,
      S_slash \o S_src \o S_main_ts,
      Undef }

\* url.match(/\/(\w*)\.component\.html/): <<start, end>> of the first match's
\* group, <<>> when there is no match
MiddlewareMatch(url) ==
    LET NameEnd(i) == {k \in (i + 1)..(Len(url) + 1) :
                          /\ \A j \in (i + 1)..(k - 1) : url[j] \in WordChars
                          /\ MatchAt(url, S_dot_component_html, k)}
        starts == {i \in 1..Len(url) : url[i] = "/" /\ NameEnd(i) # {}}
    IN  IF url = Undef \/ starts = {} THEN <<>>
        ELSE LET i == CHOOSE x \in starts : \A y \in starts : x <= y
                 k == CHOOSE x \in NameEnd(i) : TRUE
             IN  <<i + 1, k - 1>>

\* a request the middleware has done nothing with yet
NoResponse ==
    [url |-> Undef, stage |-> "none", statusSet |-> FALSE, contentType |-> "",
     written |-> FALSE, body |-> <<>>, ended |-> FALSE, nextCalls |-> 0]

\* res.statusCode = 200; res.setHeader("Content-Type", type); res.write(body); res.end()
Respond(url, type, body) ==
    [url |-> url, stage |-> "done", statusSet |-> TRUE, contentType |-> type,
     written |-> TRUE, body |-> body, ended |-> TRUE, nextCalls |-> 0]

\* next()
PassOn(url) == [NoResponse EXCEPT !.url = url, !.stage = "done", !.nextCalls = 1]

\* the middleware of ReplaceTemplateUrlPlugin; readable tells whether
\* readFileSync finds the template.  readFileSync is an argument of
\* res.write, so when it throws the status and the header are already set,
\* and the exception leaves the middleware.
templateMiddleware(url, readable) ==
    LET m == MiddlewareMatch(url)
    IN  IF m = <<>> THEN PassOn(url)
        ELSE LET componentName == SubSeq(url, m[1], m[2])
                 componentTemplateURL == ComponentTemplateURL(componentName)
             IN  IF readable
                 THEN Respond(url, "text/html", FileContent(componentTemplateURL))
                 ELSE [NoResponse EXCEPT !.url = url, !.stage = "threw",
                                         !.statusSet = TRUE, !.contentType = "text/html"]

\* the condition of GlobalStylesPlugin's middleware
StyleRequested(srv, url) ==
    \/ url # Undef /\ url # Empty
          /\ \E i \in 1..Len(srv.globalStyleSheets) :
                srv.globalStyleSheets[i] = Replace(url, S_slash, Empty)
    \/ url # Undef /\ url = S_slash \o srv.entryCSSFile

\* the middleware of GlobalStylesPlugin up to its await: transformLessCode
\* reads the file (an exception rejects the async function's promise) and
\* starts less.render
stylesMiddleware(srv, url, readable) ==
    IF ~StyleRequested(srv, url) THEN PassOn(url)
    ELSE [NoResponse EXCEPT !.url = url,
                            !.stage = IF readable THEN "awaiting" ELSE "rejected",
                            !.body = globalStylesDir \o Replace(url, S_css, S_less)]

\* the middleware after its await: less.render gave the CSS, or rejected
stylesMiddlewareResume(exchange, rendered) ==
    IF rendered THEN Respond(exchange.url, "text/css", <<"css">> \o exchange.body)
    ELSE [exchange EXCEPT !.stage = "rejected"]

\* GlobalStylesPlugin.config: entryCSSFile and the listing of the styles folder
InitServer ==
    /\ \/ server = [plugin |-> "ReplaceTemplateUrlPlugin", globalStyleSheets |-> <<>>,
                    entryCSSFile |-> <<>>]
       \/ \E listing \in {<<S_main_less, S_vars_less>>, <<S_main_less>>} :
             server = [plugin |-> "GlobalStylesPlugin", globalStyleSheets |-> listing,
                       entryCSSFile |-> Replace(entryStylesheet, S_less, S_css)]
    /\ exchanges = <<>>
    /\ NoBuilder
    /\ NoHost
    /\ NoHarness
    /\ NoTemplatePlugin
    /\ NoTranspilePlugin
    /\ NoCoveragePlugin
    /\ NoLinkerPlugin

TemplateMiddleware ==
    /\ server.plugin = "ReplaceTemplateUrlPlugin"
    /\ Len(exchanges) < MaxRequests
    /\ \E url \in TemplateUrls, readable \in BOOLEAN :
          exchanges' = Append(exchanges, templateMiddleware(url, readable))
    /\ UNCHANGED server
    /\ UNCHANGED <<builderVars, hookVars, harnessVars, templateVars>>
    /\ UNCHANGED <<transpileVars, coverageVars, linkerVars>>

StylesMiddlewareCall ==
    /\ server.plugin = "GlobalStylesPlugin"
    /\ Len(exchanges) < MaxRequests
    /\ \E url \in StyleUrls, readable \in BOOLEAN :
          exchanges' = Append(exchanges, stylesMiddleware(server, url, readable))
    /\ UNCHANGED server
    /\ UNCHANGED <<builderVars, hookVars, harnessVars, templateVars>>
    /\ UNCHANGED <<transpileVars, coverageVars, linkerVars>>

StylesMiddlewareResume ==
    /\ \E i \in 1..Len(exchanges), rendered \in BOOLEAN :
          /\ exchanges[i].stage = "awaiting"
          /\ exchanges' = [exchanges EXCEPT ![i] = stylesMiddlewareResume(@, rendered)]
    /\ UNCHANGED server
    /\ UNCHANGED <<builderVars, hookVars, harnessVars, templateVars>>
    /\ UNCHANGED <<transpileVars, coverageVars, linkerVars>>

NextServer == TemplateMiddleware \/ StylesMiddlewareCall \/ StylesMiddlewareResume

SpecServer == InitServer /\ [][NextServer]_vars

\* a promise that less.render returned settles, and the continuation runs
SpecServerFair == SpecServer /\ WF_vars(StylesMiddlewareResume)

-----------------------------------------------------------------------------
(* C18, C19 *)

\* the URL matches the pattern of the server's middleware
MatchesPattern(url) ==
    IF server.plugin = "ReplaceTemplateUrlPlugin"
    THEN MiddlewareMatch(url) # <<>>
    ELSE StyleRequested(server, url)

ExpectedType == IF server.plugin = "ReplaceTemplateUrlPlugin" THEN "text/html" ELSE "text/css"

\* the first path: a 200 response of the middleware's type, written and ended,
\* without next()
Answered(x) ==
    /\ x.statusSet /\ x.contentType = ExpectedType
    /\ x.written /\ x.ended
    /\ x.nextCalls = 0

\* the second path: next() once, nothing written
PassedOn(x) ==
    /\ x.nextCalls = 1
    /\ ~x.statusSet /\ x.contentType = "" /\ ~x.written /\ ~x.ended

\* C18: each request the middleware has handled took exactly one of the two
\* paths, and the first one if and only if its URL matches the pattern.
C18_ExactlyOnePathPerRequest ==
    \A i \in 1..Len(exchanges) :
        exchanges[i].stage # "awaiting" =>
            /\ Answered(exchanges[i]) \/ PassedOn(exchanges[i])
            /\ ~(Answered(exchanges[i]) /\ PassedOn(exchanges[i]))
            /\ Answered(exchanges[i]) <=> MatchesPattern(exchanges[i].url)

\* C18 holds for every request whose file could be read and rendered, and no
\* request ever takes both paths
C18_HoldsWhenTheFileIsServed ==
    \A i \in 1..Len(exchanges) :
        /\ ~(exchanges[i].ended /\ exchanges[i].nextCalls > 0)
        /\ exchanges[i].nextCalls <= 1
        /\ exchanges[i].stage = "done" =>
              /\ Answered(exchanges[i]) \/ PassedOn(exchanges[i])
              /\ Answered(exchanges[i]) <=> MatchesPattern(exchanges[i].url)

\* C19: every request that reaches the GlobalStylesPlugin middleware is
\* eventually answered with an ended response or passed on with next(), also
\* when reading or rendering the stylesheet fails.
C19_EveryStyleRequestIsSettled ==
    \A i \in 1..MaxRequests :
        (server.plugin = "GlobalStylesPlugin" /\ Len(exchanges) >= i)
            ~> (Len(exchanges) >= i
                    /\ (exchanges[i].ended \/ exchanges[i].nextCalls = 1))

\* C19 holds for the requests whose stylesheet is read and rendered: only a
\* rejected handler leaves its request pending
C19_HoldsUnlessTheHandlerRejects ==
    \A i \in 1..MaxRequests :
        (server.plugin = "GlobalStylesPlugin" /\ Len(exchanges) >= i)
            ~> (Len(exchanges) >= i
                    /\ (exchanges[i].ended \/ exchanges[i].nextCalls = 1
                            \/ exchanges[i].stage = "rejected"))

-----------------------------------------------------------------------------
(* C17 *)

RECURSIVE CountCalls(_, _)
CountCalls(calls, names) ==
    IF calls = <<>> THEN 0
    ELSE (IF Head(calls).call \in names THEN 1 ELSE 0) + CountCalls(Tail(calls), names)

\* how often the session was told that it has ended
EndReports == CountCalls(sessionCalls, {"sessionFinished", "sessionFailed"})

\* C17: every session that reaches sessionStarted eventually reports its end:
\* exactly one of sessionFinished and sessionFailed is eventually called, also
\* when the import of the test file fails, when the final spec fails and when
\* Jasmine's execute fails, synchronously or asynchronously.
C17_EverySessionReportsItsEnd ==
    /\ [](EndReports <= 1)
    /\ (CountCalls(sessionCalls, {"sessionStarted"}) = 1) ~> (EndReports = 1)

\* the same holds for every session in which execute() does not reject
\* asynchronously
C17_HoldsUnlessExecuteRejects ==
    /\ [](EndReports <= 1)
    /\ (CountCalls(sessionCalls, {"sessionStarted"}) = 1)
          ~> (EndReports = 1 \/ jasmineState = "rejected")

-----------------------------------------------------------------------------
(* C13 *)

\* the emitted code lacks the selector entry or the class declaration the
\* HMR plugin's regular expressions look for
LacksHmrPatterns(code) == ~HasToken(code, "selector") \/ ~HasToken(code, "class")

\* C13: the HMR plugin's transform never raises on a file that does not match
\* its patterns: for an id ending in "component.ts" whose code has no selector
\* entry or no class declaration it returns the code unchanged.
C13_HmrTransformNeverRaises ==
    \A i \in PluginEventsOf(lastOp) :
        lastOp.events[i].plugin = "hmr-plugin" =>
            /\ lastOp.events[i].output # Throw
            /\ (EndsWith(lastOp.events[i].file, S_component_ts)
                    /\ LacksHmrPatterns(lastOp.events[i].input)) =>
                  lastOp.events[i].output = lastOp.events[i].input

-----------------------------------------------------------------------------
(* C14 *)

\* what the claim says about the modules a transform hook answered with code
ModuleInjectionsFollowTheMode ==
    (lastHook.hook = "transform" /\ lastHook.outcome = "code") =>
        IF isDev
        THEN /\ lastHook.file = F_comp => HasToken(lastHook.text, "hmrFooter")
             /\ lastHook.file = F_main =>
                   /\ HasToken(lastHook.text, "importCompiler")
                   /\ ~HasToken(lastHook.text, "importPolyfills")
        ELSE /\ ~HasToken(lastHook.text, "hmrFooter")
             /\ ~HasToken(lastHook.text, "importCompiler")
             /\ lastHook.file = F_main => HasToken(lastHook.text, "importPolyfills")

\* C14 as stated: with command "serve" the builder environment is dev, the
\* HMR footer and the compiler import are added, index.html receives the
\* polyfills script tag and main.ts no polyfills import; with any other
\* command the environment is production, no footer and no compiler import
\* are added, index.html is unchanged and main.ts gets the polyfills import.
C14_InjectionsFollowTheCommand ==
    (host = "BuildAngularPlugin" /\ phase # "created") =>
        /\ env = IF isDev THEN "dev" ELSE "production"
        /\ ModuleInjectionsFollowTheMode
        /\ lastHook.hook = "transformIndexHtml" =>
              IF isDev THEN HasToken(lastHook.text, "polyfillsScript")
              ELSE lastHook.text = lastHook.input

\* C14, amended: the same, but in development index.html receives the script
\* tag only when it contains the text "<head>", right after its first
\* occurrence; an index.html without it is returned unchanged.
C14_InjectionsFollowTheCommandGivenHead ==
    (host = "BuildAngularPlugin" /\ phase # "created") =>
        /\ env = IF isDev THEN "dev" ELSE "production"
        /\ ModuleInjectionsFollowTheMode
        /\ lastHook.hook = "transformIndexHtml" =>
              IF isDev /\ HasToken(lastHook.input, "<head>")
              THEN /\ HasToken(lastHook.text, "polyfillsScript")
                   /\ Len(lastHook.text) = Len(lastHook.input) + 1
              ELSE lastHook.text = lastHook.input

\* the dev server answered index.html with the script tag in it
C14_Witness ==
    /\ host = "BuildAngularPlugin"
    /\ isDev
    /\ env = "dev"
    /\ lastHook.hook = "transformIndexHtml"
    /\ HasToken(lastHook.input, "<head>")
    /\ HasToken(lastHook.text, "polyfillsScript")

-----------------------------------------------------------------------------
(* C15 *)

\* what a builder and a plugin instance that have seen no file before return
\* for this file id, source text and Babel outcome
FreshCompile(included, fileId, source, babel) ==
    LET r    == instrumentFilesPlugin_read(included, [f \in CoverageFiles |-> <<>>],
                                           fileId, source, babel)
        text == IF r.returned /\ r.code # <<>> THEN r.code ELSE source
    IN  instrumentFilesPlugin_transform(r.mapping, fileId, emitAssignments(text))

\* C15: compilation is single-pass and history-independent: for a given file
\* id and source text the compiled text is the same whatever files were read
\* or compiled earlier and however often this file was compiled before by the
\* same builder and plugin instances.
C15_CompilationIsHistoryIndependent ==
    lastCoverage.called =>
        lastCoverage.code = FreshCompile(coverageConfig, lastCoverage.file,
                                         lastCoverage.source, lastCoverage.babel)

\* C15 holds for a file that the instances read for the first time, also after
\* another file was read and recorded
C15_HoldsOnFirstRead ==
    (lastCoverage.called /\ readCount = 1) => C15_CompilationIsHistoryIndependent

-----------------------------------------------------------------------------
(* C20 *)

\* the sessionFinished call, once it was made
Finished == {i \in 1..Len(sessionCalls) : sessionCalls[i].call = "sessionFinished"}

\* one entry per failed expectation of the specs, in completion order
RECURSIVE AllFailedExpectations(_)
AllFailedExpectations(specs) ==
    IF specs = <<>> THEN <<>>
    ELSE [i \in 1..Len(Head(specs).failedExpectations) |->
             [message |-> Head(specs).fullName, name |-> Head(specs).failedExpectations[i]]]
         \o AllFailedExpectations(Tail(specs))

\* one entry per expectation of the specs: for each spec the passed ones, then
\* the failed ones
RECURSIVE AllExpectations(_)
AllExpectations(specs) ==
    IF specs = <<>> THEN <<>>
    ELSE [i \in 1..Len(Head(specs).passedExpectations) |->
             [name |-> Head(specs).passedExpectations[i], passed |-> TRUE]]
         \o [i \in 1..Len(Head(specs).failedExpectations) |->
             [name |-> Head(specs).failedExpectations[i], passed |-> FALSE]]
         \o AllExpectations(Tail(specs))

\* C20: sessionFinished is told exactly what the reporter collected: passed is
\* true iff Jasmine's overallStatus is "passed", errors are all failed
\* expectations of all completed specs in completion order followed by all
\* failed test-file imports, and testResults.tests has one entry for every
\* passed and every failed expectation of every completed spec.
C20_SessionFinishedReportsWhatWasCollected ==
    \A i \in Finished :
        /\ sessionCalls[i].passed <=> reported.overallStatus = "passed"
        /\ sessionCalls[i].errors = AllFailedExpectations(reported.specs) \o failedImports
        /\ sessionCalls[i].tests = AllExpectations(reported.specs)

\* a run with a failed import, a spec with a failed and one with a passed
\* expectation, reported as not passed
C20_Witness ==
    /\ Finished # {}
    /\ failedImports # <<>>
    /\ Len(reported.specs) = 2
    /\ \E i \in Finished :
          /\ ~sessionCalls[i].passed
          /\ Len(sessionCalls[i].errors) = 2
          /\ Len(sessionCalls[i].tests) = 2

====
